---- MODULE Spec2Model ----
(***************************************************************************)
(* A model of the OpenAlex research MCP server: the bounded TTL cache      *)
(* (SimpleCache), the resilient fetch core of OpenAlexClient               *)
(* (retryWithBackoff, getEntity, searchEntities, autocomplete,             *)
(* findSimilarWorks), the filter normaliser (buildFilter) and the tool     *)
(* dispatch handler of the server.                                         *)
(*                                                                         *)
(* Text is modelled as a sequence of tokens: every punctuation character   *)
(* the code inspects or emits ("/", ":", "?", ",", "-", ">", "<", "=",     *)
(* "{", "}", the double quote) is a token of its own and a maximal run of  *)
(* other characters is one token, so two texts are equal exactly when      *)
(* their token sequences are equal.  The empty text is << >>.              *)
(***************************************************************************)
EXTENDS Integers, Sequences, FiniteSets, TLC

VARIABLES
  cache,    \* SimpleCache.cache: the Map's entries in insertion order
  now,      \* Date.now(), in clock ticks
  op,       \* the last SimpleCache operation and what it returned
  sets,     \* keys given to SimpleCache.set since the cache was last empty
            \* (op and sets are history variables of the cache on its own)
  client,   \* OpenAlexClient configuration: enableCache, email, apiKey
  call,     \* per invocation: the client call in progress, with its history
            \* (failures, calls, hit, first, undisturbed, doneAt)
  tool,     \* per invocation: the tool call being handled
  fn        \* input and output of the pure function under evaluation

vars == <<cache, now, op, sets, client, call, tool, fn>>

(***************************************************************************)
(* Bounds of the model and constants of the program                        *)
(***************************************************************************)

\* CONFIG.CACHE.MAX_SIZE is 1000 in the program; the model runs a small cache.
MAX_SIZE == 2
\* CONFIG.CACHE.TTL_MS is 5 minutes in the program; the model counts ticks.
TTL_MS == 1
\* The clock stops advancing at MaxTime.
MaxTime == 2

MAX_RETRIES == 3
INITIAL_DELAY_MS == 1000
MAX_DELAY_MS == 10000
BACKOFF_FACTOR == 2
DEFAULT_PAGE_SIZE == 10
MAX_PAGE_SIZE == 200

(***************************************************************************)
(* JavaScript values                                                       *)
(***************************************************************************)

\* An optional value: << >> is undefined, <<x>> is x.
None == << >>
Some(x) == <<x>>

\* A JavaScript value of type string, number or boolean, or null/undefined.
JStr(s) == [t |-> "string", s |-> s, n |-> 0]
JNum(n) == [t |-> "number", s |-> << >>, n |-> n]
JBool(b) == [t |-> "boolean", s |-> << >>, n |-> IF b THEN 1 ELSE 0]
JNull == [t |-> "null", s |-> << >>, n |-> 0]
JUndefined == [t |-> "undefined", s |-> << >>, n |-> 0]
\* A JSON object received from upstream, named by its content.
JObj(name) == [t |-> "object", s |-> <<name>>, n |-> 0]
\* An array of one-token strings.
JArr(items) == [t |-> "array", s |-> items, n |-> 0]

\* if (x): the truthiness of a value.
Truthy(x) ==
  CASE x.t = "string" -> x.s # << >>
    [] x.t = "number" -> x.n # 0
    [] x.t = "boolean" -> x.n = 1
    [] x.t \in {"object", "array"} -> TRUE
    [] OTHER -> FALSE

RECURSIVE Join(_, _)
\* Array.join: the texts of parts separated by sep.
Join(parts, sep) ==
  IF parts = << >> THEN << >>
  ELSE IF Len(parts) = 1 THEN parts[1]
  ELSE LET half == Len(parts) \div 2 IN
       Join(SubSeq(parts, 1, half), sep) \o sep
       \o Join(SubSeq(parts, half + 1, Len(parts)), sep)

\* `${x}`: the text of a value in a template literal.
ToStr(x) ==
  CASE x.t = "string" -> x.s
    [] x.t = "number" -> <<ToString(x.n)>>
    [] x.t = "boolean" -> IF x.n = 1 THEN <<"true">> ELSE <<"false">>
    [] x.t = "object" -> <<"[object Object]">>
    [] x.t = "array" -> Join([i \in 1..Len(x.s) |-> <<x.s[i]>>], <<",">>)
    [] OTHER -> <<x.t>>

\* a || b
Or(a, b) == IF Truthy(a) THEN a ELSE b

(***************************************************************************)
(* SimpleCache                                                             *)
(***************************************************************************)

\* The position of key in the Map, 0 when it has no entry.
IndexOf(c, key) ==
  IF \E i \in 1..Len(c) : c[i].key = key
  THEN CHOOSE i \in 1..Len(c) : c[i].key = key
  ELSE 0

\* Map.delete of the entry at position i.
RemoveAt(c, i) == SubSeq(c, 1, i - 1) \o SubSeq(c, i + 1, Len(c))

\* A variant of Expired that expires an entry one tick early.
Expired_AtTtl(entry, t) == t - entry.timestamp >= TTL_MS

\* Date.now() - entry.timestamp > this.ttl
Expired(entry, t) == t - entry.timestamp > TTL_MS

\* A variant of CacheGet that never finds an entry.
CacheGet_AlwaysMiss(c, key, t) == [ret |-> JNull, cache |-> c]

\* SimpleCache.get(key) at time t: the value returned and the Map afterwards.
CacheGet(c, key, t) ==
  LET i == IndexOf(c, key) IN
  IF i = 0 THEN [ret |-> JNull, cache |-> c]
  ELSE IF Expired(c[i], t) THEN [ret |-> JNull, cache |-> RemoveAt(c, i)]
  ELSE [ret |-> c[i].data, cache |-> c]

\* A variant of Evict that removes the newest entry instead of the oldest.
Evict_Newest(c) ==
  IF Len(c) >= MAX_SIZE /\ Len(c) > 0 THEN SubSeq(c, 1, Len(c) - 1) ELSE c

\* The eviction of SimpleCache.set: at capacity the first key of the Map goes,
\* unless that key is falsy (the empty text).
Evict(c) ==
  IF Len(c) >= MAX_SIZE /\ Len(c) > 0 /\ c[1].key # << >> THEN Tail(c) ELSE c

\* A variant of MapSet that appends the entry even when the key is present.
MapSet_Append(c, entry) == Append(c, entry)

\* Map.set: a present key keeps its position and takes the new entry, a new
\* key is appended.
MapSet(c, entry) ==
  LET i == IndexOf(c, entry.key) IN
  IF i = 0 THEN Append(c, entry) ELSE [c EXCEPT ![i] = entry]

\* SimpleCache.set(key, value) at time t.
CacheSet(c, key, value, t) ==
  MapSet(Evict(c), [key |-> key, data |-> value, timestamp |-> t])

\* A variant of CacheClear that leaves the newest entry in the Map.
CacheClear_KeepNewest(c) == IF Len(c) = 0 THEN c ELSE <<c[Len(c)]>>

\* SimpleCache.clear()
CacheClear(c) == << >>

\* SimpleCache.size
CacheSize(c) == Len(c)

CacheKeysOf(c) == {c[i].key : i \in 1..Len(c)}

(***************************************************************************)
(* OpenAlexClient: query parameters, paths and cache keys                  *)
(***************************************************************************)

\* obj[key] = value on an object whose keys are kept in insertion order.
ObjSet(obj, key, value) ==
  LET i == IndexOf(obj, key) IN
  IF i = 0 THEN Append(obj, [key |-> key, value |-> value])
  ELSE [obj EXCEPT ![i] = [key |-> key, value |-> value]]

\* SearchOptions and FindSimilarWorksOptions with every field absent.
NoOptions ==
  [search |-> JUndefined, filter |-> None, sort |-> JUndefined,
   page |-> JUndefined, perPage |-> JUndefined, select |-> None,
   groupBy |-> JUndefined, sample |-> JUndefined,
   query |-> JUndefined, count |-> JUndefined]

\* The filter texts `${key}:${value}` of Object.entries(filter), comma-joined.
FilterText(filter) ==
  Join([i \in 1..Len(filter) |-> filter[i].key \o <<":">> \o ToStr(filter[i].value)],
       <<",">>)

\* params.filter, set when options.filter is given and has an entry.
FilterParam(options) ==
  IF options.filter # None /\ Len(options.filter[1]) > 0
  THEN <<[key |-> <<"filter">>, value |-> JStr(FilterText(options.filter[1]))]>>
  ELSE << >>

\* if (options.x) params.x = options.x
StrParam(name, v) ==
  IF Truthy(v) THEN <<[key |-> <<name>>, value |-> v]>> ELSE << >>

\* if (options.x) params.x = options.x.toString()
NumParam(name, v) ==
  IF Truthy(v) THEN <<[key |-> <<name>>, value |-> JStr(ToStr(v))]>> ELSE << >>

\* A variant of IdentityParams that sends the email whenever one is configured.
IdentityParams_Both(cl) ==
  (IF Truthy(cl.email)
   THEN <<[key |-> <<"mailto">>, value |-> cl.email]>> ELSE << >>)
  \o (IF Truthy(cl.apiKey)
      THEN <<[key |-> <<"api_key">>, value |-> cl.apiKey]>> ELSE << >>)

\* The identity parameter: mailto when only an email is configured, api_key
\* whenever an API key is configured.
IdentityParams(cl) ==
  (IF Truthy(cl.email) /\ ~Truthy(cl.apiKey)
   THEN <<[key |-> <<"mailto">>, value |-> cl.email]>> ELSE << >>)
  \o (IF Truthy(cl.apiKey)
      THEN <<[key |-> <<"api_key">>, value |-> cl.apiKey]>> ELSE << >>)

\* options.sort as buildQueryParams transmits it.
SortParam(options) == StrParam("sort", options.sort)

\* OpenAlexClient.buildQueryParams
buildQueryParams(cl, options) ==
  IdentityParams(cl)
  \o StrParam("search", options.search)
  \o FilterParam(options)
  \o SortParam(options)
  \o NumParam("page", options.page)
  \o NumParam("per_page", options.perPage)
  \o (IF options.select # None /\ Len(options.select[1]) > 0
      THEN <<[key |-> <<"select">>, value |-> JStr(Join(options.select[1], <<",">>))]>>
      ELSE << >>)
  \o StrParam("group_by", options.groupBy)
  \o NumParam("sample", options.sample)

\* The params object findSimilarWorks builds.
FindParams(cl, options) ==
  IdentityParams(cl)
  \o <<[key |-> <<"query">>, value |-> options.query]>>
  \o NumParam("count", options.count)
  \o FilterParam(options)

\* The params object getEntity builds.
EntityParams(cl) == IdentityParams(cl)

\* The params object autocomplete builds.
AutocompleteParams(cl, query) ==
  <<[key |-> <<"q">>, value |-> query]>> \o IdentityParams(cl)

\* JSON.stringify of a value: a string in quotes, a number or boolean bare.
StringifyValue(v) ==
  IF v.t = "string" THEN <<"\"">> \o v.s \o <<"\"">> ELSE ToStr(v)

\* JSON.stringify of a params object; a key whose value is undefined is left out.
Stringify(params) ==
  LET kept == SelectSeq(params, LAMBDA e : e.value.t # "undefined") IN
  <<"{">>
  \o Join([i \in 1..Len(kept) |->
             <<"\"">> \o kept[i].key \o <<"\"", ":">> \o StringifyValue(kept[i].value)],
          <<",">>)
  \o <<"}">>

\* The id segment getEntity puts into the path.
IdSegment(id) == ToStr(id)

\* The path of the GET request of a client call.
PathOf(req) ==
  CASE req.kind = "getEntity" ->
         <<"/">> \o ToStr(req.entityType) \o <<"/">> \o IdSegment(req.id)
    [] req.kind = "searchEntities" -> <<"/">> \o ToStr(req.entityType)
    [] req.kind = "autocomplete" ->
         <<"/", "autocomplete", "/">> \o ToStr(req.entityType)
    [] req.kind = "findSimilarWorks" -> <<"/", "find", "/", "works">>

\* The params of the GET request of a client call.
ParamsOf(cl, req) ==
  CASE req.kind = "getEntity" -> EntityParams(cl)
    [] req.kind = "searchEntities" -> buildQueryParams(cl, req.options)
    [] req.kind = "autocomplete" -> AutocompleteParams(cl, req.id)
    [] req.kind = "findSimilarWorks" -> FindParams(cl, req.options)

\* The GET request a client call issues on each attempt.
HttpOf(cl, req) == [path |-> PathOf(req), params |-> ParamsOf(cl, req)]

\* The cache key of a client call.
CacheKey(cl, req) ==
  CASE req.kind = "getEntity" -> ToStr(req.entityType) \o <<"/">> \o ToStr(req.id)
    [] req.kind = "searchEntities" ->
         ToStr(req.entityType) \o <<"?">> \o Stringify(buildQueryParams(cl, req.options))
    [] req.kind = "autocomplete" ->
         <<"autocomplete", "/">> \o ToStr(req.entityType) \o <<"?", "q", "=">>
         \o ToStr(req.id)
    [] req.kind = "findSimilarWorks" ->
         <<"find", "/", "works", "?">> \o Stringify(FindParams(cl, req.options))

\* The four client calls; autocomplete carries its query in the id field.
GetEntity(entityType, id) ==
  [kind |-> "getEntity", entityType |-> entityType, id |-> id, options |-> NoOptions]
SearchEntities(entityType, options) ==
  [kind |-> "searchEntities", entityType |-> entityType, id |-> JUndefined,
   options |-> options]
Autocomplete(entityType, query) ==
  [kind |-> "autocomplete", entityType |-> entityType, id |-> query,
   options |-> NoOptions]
FindSimilarWorks(options) ==
  [kind |-> "findSimilarWorks", entityType |-> JStr(<<"works">>), id |-> JUndefined,
   options |-> options]

(***************************************************************************)
(* OpenAlexClient: retryWithBackoff and the four fetch paths               *)
(***************************************************************************)

\* The invocations that can be in flight together.
Procs == {1, 2}

\* What the upstream can answer a request with: the JSON document of the
\* resource asked for (an entity record exists in two versions, as the
\* upstream updates it), or a failure status.
Payloads(req) ==
  {JObj(req.kind)} \cup (IF req.kind = "getEntity" THEN {JObj("updated")} ELSE {})
Failures == {"429", "500"}

\* A variant of ErrorMessage without the interceptor's 429 branch.
ErrorMessage_Generic(status) == <<"Request failed with status code ", status>>

\* The response interceptor: the message of the error a failed GET raises.
ErrorMessage(status) ==
  IF status = "429"
  THEN <<"Rate limit exceeded. Please wait before making more requests.">>
  ELSE <<"Request failed with status code ", status>>

RECURSIVE Pow(_, _)
Pow(b, e) == IF e = 0 THEN 1 ELSE b * Pow(b, e - 1)

Min(a, b) == IF a <= b THEN a ELSE b

\* A variant of Delay that sleeps the initial delay every time.
Delay_NoBackoff(attempt) == Min(INITIAL_DELAY_MS, MAX_DELAY_MS)

\* The delay slept after the failed attempt with 0-based index attempt.
Delay(attempt) == Min(INITIAL_DELAY_MS * Pow(BACKOFF_FACTOR, attempt), MAX_DELAY_MS)

\* The context text retryWithBackoff is given.
Context(req) ==
  CASE req.kind = "getEntity" ->
         <<"getEntity(">> \o ToStr(req.entityType) \o <<", ">> \o ToStr(req.id) \o <<")">>
    [] req.kind = "searchEntities" ->
         <<"searchEntities(">> \o ToStr(req.entityType) \o <<")">>
    [] req.kind = "autocomplete" ->
         <<"autocomplete(">> \o ToStr(req.entityType) \o <<", ">> \o ToStr(req.id) \o <<")">>
    [] OTHER -> <<"findSimilarWorks">>

\* The message of the error thrown when the attempts are exhausted.
TerminalError(req, lastError) ==
  Context(req) \o <<":", " Failed after ", ToString(MAX_RETRIES),
                    " attempts. Last error", ":", " ">> \o lastError

\* A variant of RetryAgain that allows one attempt too many.
RetryAgain_OneMore(attempt) == attempt < MAX_RETRIES

\* Whether the retry loop goes on after the failed attempt.
RetryAgain(attempt) == attempt < MAX_RETRIES - 1

NoReq ==
  [kind |-> "none", entityType |-> JUndefined, id |-> JUndefined, options |-> NoOptions]

IdleCall ==
  [pc |-> "idle", req |-> NoReq, attempt |-> 0, lastError |-> << >>, delay |-> 0,
   ok |-> FALSE, result |-> JUndefined, error |-> << >>, calls |-> 0, hit |-> FALSE,
   first |-> << >>, undisturbed |-> FALSE, doneAt |-> 0, failures |-> << >>,
   slept |-> << >>, cleared |-> FALSE, afterClear |-> FALSE]

\* What a call remembers of the call completed before it, when the two are
\* sequential identical calls: the same request, the first found nothing
\* cached and returned a result, nothing else touched the cache in between
\* and the second starts within the TTL of the first's completion.
FirstOf(c, req, t) ==
  IF /\ c.pc = "done" /\ c.req = req /\ c.ok /\ ~c.hit /\ c.undisturbed
     /\ t - c.doneAt <= TTL_MS
  THEN <<[result |-> c.result, calls |-> c.calls]>>
  ELSE << >>

\* Whether a call follows a completed call for the same request whose result
\* was stored and then cleared from the cache.
AfterClear(c, req) ==
  c.pc = "done" /\ c.req = req /\ c.ok /\ client.enableCache /\ c.cleared

\* A step of invocation p that changed the cache disturbs the completed calls
\* of the other invocations.
Disturbed(calls, p, changed) ==
  [q \in Procs |->
     IF q # p /\ changed /\ calls[q].pc = "done"
     THEN [calls[q] EXCEPT !.undisturbed = FALSE] ELSE calls[q]]

\* The synchronous start of a client call: the cache lookup and, on a miss,
\* the first GET.
Begin(p, req) ==
  LET key == CacheKey(client, req)
      got == IF client.enableCache THEN CacheGet(cache, key, now)
             ELSE [ret |-> JNull, cache |-> cache]
      isHit == client.enableCache /\ Truthy(got.ret)
      started == [IdleCall EXCEPT !.req = req, !.first = FirstOf(call[p], req, now),
                                  !.afterClear = AfterClear(call[p], req)]
      mine == IF isHit
              THEN [started EXCEPT !.pc = "done", !.ok = TRUE, !.result = got.ret,
                                   !.hit = TRUE, !.undisturbed = TRUE, !.doneAt = now]
              ELSE [started EXCEPT !.pc = "request", !.calls = 1]
  IN /\ cache' = got.cache
     /\ call' = [Disturbed(call, p, got.cache # cache) EXCEPT ![p] = mine]

\* A variant of Stored that stores whether or not the cache is enabled.
Stored_Always(cl, c, key, payload, t) == CacheSet(c, key, payload, t)

\* if (this.enableCache) this.cache.set(cacheKey, result): the Map afterwards.
Stored(cl, c, key, payload, t) ==
  IF cl.enableCache THEN CacheSet(c, key, payload, t) ELSE c

\* retryWithBackoff returns the document payload to invocation p and the
\* fetch path stores it.
Returned(p, payload) ==
  LET stored == Stored(client, cache, CacheKey(client, call[p].req), payload, now)
  IN /\ cache' = stored
     /\ call' = [Disturbed(call, p, stored # cache) EXCEPT
                   ![p] = [call[p] EXCEPT !.pc = "done", !.ok = TRUE,
                                          !.result = payload,
                                          !.undisturbed = TRUE, !.doneAt = now]]

\* The GET of invocation p is answered with a document.
Succeed(p) ==
  /\ call[p].pc = "request"
  /\ \E payload \in Payloads(call[p].req) : Returned(p, payload)
  /\ UNCHANGED <<now, op, sets, client, tool, fn>>

\* A variant of Fail that stores the terminal error under the call's key, as
\* a result would be.
Fail_Stored(p) ==
  /\ call[p].pc = "request"
  /\ \E status \in Failures :
       LET msg == ErrorMessage(status) IN
       /\ call' = [call EXCEPT ![p] =
                     IF RetryAgain(call[p].attempt)
                     THEN [call[p] EXCEPT !.pc = "sleep", !.lastError = msg,
                                          !.failures = Append(@, status),
                                          !.delay = Delay(call[p].attempt),
                                          !.slept = Append(@, Delay(call[p].attempt))]
                     ELSE [call[p] EXCEPT !.pc = "done", !.ok = FALSE, !.lastError = msg,
                                          !.failures = Append(@, status),
                                          !.error = TerminalError(call[p].req, msg),
                                          !.undisturbed = TRUE, !.doneAt = now]]
       /\ cache' = IF RetryAgain(call[p].attempt) THEN cache
                   ELSE Stored(client, cache, CacheKey(client, call[p].req),
                               JObj("error"), now)
  /\ UNCHANGED <<now, op, sets, client, tool, fn>>

\* The GET of invocation p fails: retryWithBackoff sleeps before the next
\* attempt, or throws when this was the last one.
Fail(p) ==
  /\ call[p].pc = "request"
  /\ \E status \in Failures :
       LET msg == ErrorMessage(status) IN
       call' = [call EXCEPT ![p] =
                  IF RetryAgain(call[p].attempt)
                  THEN [call[p] EXCEPT !.pc = "sleep", !.lastError = msg,
                                       !.failures = Append(@, status),
                                       !.delay = Delay(call[p].attempt),
                                       !.slept = Append(@, Delay(call[p].attempt))]
                  ELSE [call[p] EXCEPT !.pc = "done", !.ok = FALSE, !.lastError = msg,
                                       !.failures = Append(@, status),
                                       !.error = TerminalError(call[p].req, msg),
                                       !.undisturbed = TRUE, !.doneAt = now]]
  /\ UNCHANGED <<cache, now, op, sets, client, tool, fn>>

\* A variant of Wake in which the timer of the sleep never fires.
Wake_Never(p) ==
  /\ call[p].pc = "sleep"
  /\ UNCHANGED vars

\* The backoff sleep of invocation p ends: the next attempt issues its GET.
Wake(p) ==
  /\ call[p].pc = "sleep"
  /\ call' = [call EXCEPT ![p] = [call[p] EXCEPT !.pc = "request",
                                                 !.attempt = call[p].attempt + 1,
                                                 !.calls = call[p].calls + 1]]
  /\ UNCHANGED <<cache, now, op, sets, client, tool, fn>>

\* OpenAlexClient.clearCache
ClearCache ==
  /\ cache' = CacheClear(cache)
  /\ call' = [q \in Procs |-> IF call[q].pc = "done"
                              THEN [call[q] EXCEPT !.undisturbed = FALSE,
                                                   !.cleared = TRUE]
                              ELSE call[q]]
  /\ UNCHANGED <<now, op, sets, client, tool, fn>>

\* Time passes.
Tick ==
  /\ now < MaxTime
  /\ now' = now + 1
  /\ UNCHANGED <<cache, op, sets, client, call, tool, fn>>

(***************************************************************************)
(* The client used directly: one caller issuing calls one after another    *)
(***************************************************************************)

Text(word) == JStr(<<word>>)

\* The configurations a client is constructed with.
Configs ==
  {[enableCache |-> e, email |-> Text("me@example.org"), apiKey |-> k] :
     e \in BOOLEAN, k \in {JUndefined}}

YearRange == JStr(<<"2020", "-", "2023">>)

\* The calls the direct caller makes: one of each fetch path.
ClientRequests ==
  { GetEntity(Text("works"), Text("W1")),
    SearchEntities(Text("works"),
      [NoOptions EXCEPT !.search = Text("ai"),
                        !.filter = Some(<<[key |-> <<"publication_year">>,
                                           value |-> YearRange]>>),
                        !.page = JNum(1), !.perPage = JNum(DEFAULT_PAGE_SIZE)]),
    Autocomplete(Text("authors"), Text("hin")),
    FindSimilarWorks([NoOptions EXCEPT !.query = Text("drug discovery"),
                                       !.count = JNum(10)]) }

NoOp == [name |-> "none", key |-> << >>, ret |-> JUndefined]
NoSets == [keys |-> << >>, pure |-> TRUE]
Broken == [keys |-> << >>, pure |-> FALSE]
IdleTool == [pc |-> "idle"]
NoFn == [name |-> "none"]

\* The sequential caller.
Caller == 1

Init ==
  /\ cache = << >>
  /\ now = 0
  /\ op = NoOp
  /\ sets = NoSets
  /\ client \in Configs
  /\ call = [p \in Procs |-> IdleCall]
  /\ tool = [p \in Procs |-> IdleTool]
  /\ fn = NoFn

\* The caller starts a call once its previous one has returned or thrown.
StartCall(p) ==
  /\ call[p].pc \in {"idle", "done"}
  /\ \E req \in ClientRequests : Begin(p, req)
  /\ UNCHANGED <<now, op, sets, client, tool, fn>>

Next ==
  \/ StartCall(Caller)
  \/ Succeed(Caller)
  \/ Fail(Caller)
  \/ Wake(Caller)
  \/ ClearCache
  \/ Tick

Spec == Init /\ [][Next]_vars

(***************************************************************************)
(* Claims about the client used directly (specification Spec)              *)
(***************************************************************************)

\* The last n tokens of a text.
Suffix(s, n) == SubSeq(s, Len(s) - n + 1, Len(s))

Contains(s, token) == \E i \in 1..Len(s) : s[i] = token

\* The second of two sequential identical calls has completed.
SecondDone(p) == call[p].pc = "done" /\ call[p].first # << >>

\* C1 as stated: two sequential identical calls, the first succeeding and the
\* second made within the TTL, cause exactly one upstream HTTP call and return
\* the same payload with the cache enabled, and exactly two upstream calls
\* with the cache disabled.
C1_ExactlyOneUpstreamCall ==
  \A p \in Procs :
    SecondDone(p) =>
      LET first == call[p].first[1] IN
      IF client.enableCache
      THEN /\ first.calls + call[p].calls = 1
           /\ call[p].ok
           /\ call[p].result = first.result
      ELSE first.calls + call[p].calls = 2

\* C1 (amended): with the cache enabled, when the first call returned a JSON
\* document the second issues no upstream call and returns that document, so
\* the two cause as many upstream calls as the first made attempts (between
\* one and MAX_RETRIES).  With the cache disabled each call issues one
\* upstream call per attempt, at least one each, hence exactly two when no
\* attempt fails.
C1_SecondCallServedFromCache ==
  \A p \in Procs :
    SecondDone(p) =>
      LET first == call[p].first[1] IN
      /\ first.calls \in 1..MAX_RETRIES
      /\ (client.enableCache /\ Truthy(first.result)) =>
           /\ call[p].calls = 0
           /\ call[p].ok
           /\ call[p].result = first.result
      /\ ~client.enableCache =>
           /\ call[p].calls >= 1
           /\ (first.calls = 1 /\ call[p].failures = << >>) =>
                first.calls + call[p].calls = 2

\* C1 witness: a second call served from the cache after a first call that
\* needed a retry.
C1_Witness ==
  \E p \in Procs :
    /\ SecondDone(p) /\ client.enableCache /\ call[p].hit
    /\ call[p].first[1].calls = 2 /\ call[p].calls = 0

\* C2: retryWithBackoff calls the upstream at most MAX_RETRIES times and stops
\* at the first success, returning its result (after exactly 3 attempts when
\* attempts 1 and 2 failed); when all MAX_RETRIES attempts fail it throws an
\* error whose message holds the attempt count and the last error's message.
C2_RetryTermination ==
  \A p \in Procs :
    LET c == call[p] IN
    /\ c.calls <= MAX_RETRIES
    /\ c.pc \in {"request", "sleep"} => c.calls = Len(c.failures) + (IF c.pc = "request" THEN 1 ELSE 0)
    /\ (c.pc = "done" /\ ~c.hit) =>
         IF c.ok
         THEN /\ c.calls = Len(c.failures) + 1
              /\ c.result \in Payloads(c.req)
         ELSE /\ c.calls = MAX_RETRIES
              /\ Len(c.failures) = MAX_RETRIES
              /\ Contains(c.error, ToString(MAX_RETRIES))
              /\ LET last == ErrorMessage(c.failures[Len(c.failures)])
                 IN Suffix(c.error, Len(last)) = last

\* C2 witness: a success on the third attempt, and a terminal failure.
C2_Witness ==
  \E p \in Procs :
    /\ call[p].pc = "done" /\ call[p].ok
    /\ Len(call[p].failures) = 2 /\ call[p].calls = 3

C2_WitnessExhausted ==
  \E p \in Procs :
    /\ call[p].pc = "done" /\ ~call[p].ok /\ call[p].calls = MAX_RETRIES
    /\ call[p].failures[1] # call[p].failures[MAX_RETRIES]

(***************************************************************************)
(* SimpleCache on its own: every sequence of get, set and clear            *)
(***************************************************************************)

\* The keys the client gives the cache: the cache keys of its calls.
KeyConfig == [enableCache |-> TRUE, email |-> Text("me@example.org"), apiKey |-> JUndefined]
CacheKeys == {CacheKey(KeyConfig, req) : req \in ClientRequests}
CacheValues == Payloads(GetEntity(Text("works"), Text("W1")))

CacheInit ==
  /\ cache = << >>
  /\ now = 0
  /\ op = NoOp
  /\ sets = NoSets
  /\ client = KeyConfig
  /\ call = [p \in Procs |-> IdleCall]
  /\ tool = [p \in Procs |-> IdleTool]
  /\ fn = NoFn

\* A variant of Get that treats a hit as a use of the entry: the entry moves
\* to the end of the Map and takes the time of the read.
Get_Refresh(key) ==
  LET got == CacheGet(cache, key, now)
      i == IndexOf(cache, key)
      after == IF got.ret # JNull
               THEN Append(RemoveAt(cache, i), [cache[i] EXCEPT !.timestamp = now])
               ELSE got.cache IN
  /\ cache' = after
  /\ op' = [name |-> "get", key |-> key, ret |-> got.ret]
  /\ sets' = IF after = cache THEN sets ELSE Broken
  /\ UNCHANGED <<now, client, call, tool, fn>>

\* cache.get(key)
Get(key) ==
  LET got == CacheGet(cache, key, now) IN
  /\ cache' = got.cache
  /\ op' = [name |-> "get", key |-> key, ret |-> got.ret]
  /\ sets' = IF got.cache = cache THEN sets ELSE Broken
  /\ UNCHANGED <<now, client, call, tool, fn>>

\* cache.set(key, value); sets records the keys of an unbroken run of set
\* calls on a cache that started empty, up to MAX_SIZE + 1 of them.
Set(key, value) ==
  /\ cache' = CacheSet(cache, key, value, now)
  /\ op' = [name |-> "set", key |-> key, ret |-> JUndefined]
  /\ sets' = IF sets.pure /\ Len(sets.keys) <= MAX_SIZE
             THEN [sets EXCEPT !.keys = Append(@, key)]
             ELSE Broken
  /\ UNCHANGED <<now, client, call, tool, fn>>

\* cache.clear()
Clear ==
  /\ cache' = CacheClear(cache)
  /\ op' = [name |-> "clear", key |-> << >>, ret |-> JUndefined]
  /\ sets' = NoSets
  /\ UNCHANGED <<now, client, call, tool, fn>>

\* Time passes between two operations.
CacheTick ==
  /\ now < MaxTime
  /\ now' = now + 1
  /\ op' = [name |-> "tick", key |-> << >>, ret |-> JUndefined]
  /\ UNCHANGED <<cache, sets, client, call, tool, fn>>

CacheNext ==
  \/ \E key \in CacheKeys : Get(key)
  \/ \E key \in CacheKeys, value \in CacheValues : Set(key, value)
  \/ Clear
  \/ CacheTick

CacheSpec == CacheInit /\ [][CacheNext]_vars

Distinct(s) == \A i, j \in 1..Len(s) : i # j => s[i] # s[j]

\* MAX_SIZE + 1 distinct keys have been inserted into an empty cache.
Overfilled == sets.pure /\ Len(sets.keys) = MAX_SIZE + 1 /\ Distinct(sets.keys)

EntryOf(c, key) == c[IndexOf(c, key)]

\* C4: a get of a key stored at time T returns the stored payload and leaves
\* the map alone while now - T <= ttl; once now - T > ttl it returns null and
\* removes that entry, so the size drops by one.  Nothing else removes an
\* expired entry on the grounds of its age: an entry leaves the map only by a
\* get of its own key after expiry, by a set (of its own key, or of another
\* key when it is the oldest entry of a full cache) or by clear.
C4_LazyExpiry ==
  [][/\ \A key \in CacheKeys :
          (op'.name = "get" /\ op'.key = key /\ now' = now /\ IndexOf(cache, key) # 0) =>
            LET entry == EntryOf(cache, key) IN
            IF now - entry.timestamp <= TTL_MS
            THEN op'.ret = entry.data /\ cache' = cache
            ELSE /\ op'.ret = JNull
                 /\ cache' = RemoveAt(cache, IndexOf(cache, key))
                 /\ CacheSize(cache') = CacheSize(cache) - 1
     /\ \A i \in 1..Len(cache) :
          (\A j \in 1..Len(cache') : cache'[j] # cache[i]) =>
            \/ op'.name = "get" /\ op'.key = cache[i].key /\ Expired(cache[i], now)
            \/ op'.name = "set" /\ op'.key = cache[i].key
            \/ op'.name = "set" /\ i = 1 /\ CacheSize(cache) >= MAX_SIZE
            \/ op'.name = "clear"
    ]_vars

\* C4 witness: an expired entry is still in the map, counted by size, and the
\* last operation was a get that removed another expired entry.
C4_Witness ==
  /\ op.name = "get" /\ op.ret = JNull
  /\ CacheSize(cache) = 1 /\ Expired(cache[1], now)
  /\ ~sets.pure

(***************************************************************************)
(* Tool arguments and the input shapes of validation.ts                    *)
(***************************************************************************)

\* The argument bag of a tool call with no argument given.
NoArgs ==
  [query |-> JUndefined, topic |-> JUndefined, id |-> JUndefined,
   entity_type |-> JUndefined, author_id |-> JUndefined,
   from_publication_year |-> JUndefined, to_publication_year |-> JUndefined,
   from_year |-> JUndefined, to_year |-> JUndefined,
   cited_by_count |-> JUndefined, is_oa |-> JUndefined, type |-> JUndefined,
   sort |-> JUndefined, page |-> JUndefined, per_page |-> JUndefined,
   count |-> JUndefined, depth |-> JUndefined, max_citing |-> JUndefined,
   max_references |-> JUndefined, min_citations |-> JUndefined,
   min_collaborations |-> JUndefined, works_count |-> JUndefined,
   country_code |-> JUndefined, institution |-> JUndefined,
   topics |-> JUndefined, min_works |-> JUndefined,
   time_period_years |-> JUndefined]

ArgNames == DOMAIN NoArgs

\* One field of a z.object: its type and checks (-1: the check is not made).
Field(name, type) ==
  [name |-> name, type |-> type, required |-> FALSE, positive |-> FALSE,
   min |-> -1, max |-> -1, length |-> -1, enum |-> {}]

\* z.string().optional()
Str(name) == Field(name, "string")
\* z.string().min(1)
Str1(name) == [Field(name, "string") EXCEPT !.required = TRUE, !.min = 1]
\* z.number().positive().optional()
Num(name) == [Field(name, "number") EXCEPT !.positive = TRUE]
\* z.number().positive().max(m).optional()
NumMax(name, m) == [Field(name, "number") EXCEPT !.positive = TRUE, !.max = m]
\* z.boolean().optional()
Bool(name) == Field(name, "boolean")
\* z.enum([...])
Enum(name, values) ==
  [Field(name, "enum") EXCEPT !.required = TRUE, !.enum = values]

\* The seven entity kinds of the two entity_type enumerations.
EntityTypes ==
  {"works", "authors", "sources", "institutions", "topics", "publishers", "funders"}

\* The schemas of validation.ts, by tool name.
Schema(name) ==
  CASE name = "search_works" ->
         <<Str("query"), Num("from_publication_year"), Num("to_publication_year"),
           Str("cited_by_count"), Bool("is_oa"), Str("type"), Str("sort"),
           Num("page"), NumMax("per_page", MAX_PAGE_SIZE)>>
    [] name = "get_work" -> <<Str1("id")>>
    [] name = "get_related_works" -> <<Str1("id"), NumMax("per_page", MAX_PAGE_SIZE)>>
    [] name = "search_by_topic" ->
         <<Str1("topic"), Num("from_year"), Num("to_year"), Str("sort"),
           NumMax("per_page", MAX_PAGE_SIZE)>>
    [] name = "autocomplete_search" ->
         <<Str1("query"), Enum("entity_type", EntityTypes)>>
    [] name = "get_work_citations" ->
         <<Str1("id"), Num("page"), NumMax("per_page", MAX_PAGE_SIZE), Str("sort")>>
    [] name = "get_work_references" -> <<Str1("id")>>
    [] name = "get_citation_network" ->
         <<Str1("id"), NumMax("depth", 2), Num("max_citing"), Num("max_references")>>
    [] name = "get_top_cited_works" ->
         <<Str("query"), Str("topic"), Num("from_year"), Num("to_year"),
           Num("min_citations"), NumMax("per_page", MAX_PAGE_SIZE)>>
    [] name = "search_authors" ->
         <<Str("query"), Str("works_count"), Str("cited_by_count"),
           Str("institution"), NumMax("per_page", MAX_PAGE_SIZE)>>
    [] name = "get_author_works" ->
         <<Str1("author_id"), Num("from_year"), Num("to_year"), Str("sort"),
           NumMax("per_page", MAX_PAGE_SIZE)>>
    [] name = "get_author_collaborators" ->
         <<Str1("author_id"), Num("min_collaborations")>>
    [] name = "search_institutions" ->
         <<Str("query"), [Str("country_code") EXCEPT !.length = 2], Str("type"),
           Str("works_count"), NumMax("per_page", MAX_PAGE_SIZE)>>
    [] name = "analyze_topic_trends" ->
         <<Str1("query"), Num("from_year"), Num("to_year")>>
    [] name = "compare_research_areas" ->
         <<[Field("topics", "array") EXCEPT !.required = TRUE, !.min = 2, !.max = 5],
           Num("from_year"), Num("to_year")>>
    [] name = "get_trending_topics" ->
         <<Num("min_works"), Num("time_period_years"),
           NumMax("per_page", MAX_PAGE_SIZE)>>
    [] name = "analyze_geographic_distribution" ->
         <<Str1("query"), Num("from_year"), Num("to_year")>>
    [] name = "get_entity" -> <<Enum("entity_type", EntityTypes), Str1("id")>>
    [] name = "search_sources" ->
         <<Str("query"), Str("type"), Bool("is_oa"), Str("works_count"),
           NumMax("per_page", MAX_PAGE_SIZE)>>
    [] name = "find_similar_works" ->
         <<[Str1("query") EXCEPT !.max = 10000], NumMax("count", 100),
           Num("from_publication_year"), Num("to_publication_year"), Bool("is_oa")>>
    [] OTHER -> << >>

RECURSIVE Chars(_)
\* The number of characters of a text.
Chars(s) == IF s = << >> THEN 0 ELSE Len(Head(s)) + Chars(Tail(s))

\* The issues schema.parse raises on one field, as `${path}: ${message}` texts.
Issues(f, v) ==
  LET issue(message) == <<<<f.name, ":", " ", message>>>>
      when(cond, message) == IF cond THEN issue(message) ELSE << >>
  IN
  IF v.t = "undefined" THEN when(f.required, "Required")
  ELSE CASE f.type = "string" ->
              IF v.t # "string" THEN issue("Expected string")
              ELSE when(f.min >= 0 /\ Chars(v.s) < f.min, "String too short")
                   \o when(f.max >= 0 /\ Chars(v.s) > f.max, "String too long")
                   \o when(f.length >= 0 /\ Chars(v.s) # f.length, "String of wrong length")
         [] f.type = "number" ->
              IF v.t # "number" THEN issue("Expected number")
              ELSE when(f.positive /\ ~(v.n > 0), "Number must be greater than 0")
                   \o when(f.max >= 0 /\ v.n > f.max, "Number too big")
         [] f.type = "boolean" -> when(v.t # "boolean", "Expected boolean")
         [] f.type = "enum" ->
              when(~(v.t = "string" /\ Len(v.s) = 1 /\ v.s[1] \in f.enum),
                   "Invalid enum value")
         [] f.type = "array" ->
              IF v.t # "array" THEN issue("Expected array")
              ELSE when(f.min >= 0 /\ Len(v.s) < f.min, "Array too short")
                   \o when(f.max >= 0 /\ Len(v.s) > f.max, "Array too long")
                   \o when(\E i \in 1..Len(v.s) : v.s[i] = "", "String too short")

RECURSIVE AllIssues(_, _)
\* The issues of a bag against a schema, in the order of the schema's fields.
AllIssues(schema, params) ==
  IF schema = << >> THEN << >>
  ELSE Issues(Head(schema), params[Head(schema).name])
       \o AllIssues(Tail(schema), params)

\* schema.parse keeps the declared fields and drops every other key.
Parsed(schema, params) ==
  [a \in ArgNames |->
     IF \E i \in 1..Len(schema) : schema[i].name = a THEN params[a] ELSE JUndefined]

\* Whether a bag has the shape the tool declares.
Conforms(name, params) == AllIssues(Schema(name), params) = << >>

\* A variant of validateInput whose message stops at the first issue.
validateInput_FirstOnly(name, params) ==
  LET issues == AllIssues(Schema(name), params) IN
  IF issues = << >>
  THEN [ok |-> TRUE, value |-> Parsed(Schema(name), params), message |-> << >>]
  ELSE [ok |-> FALSE, value |-> NoArgs,
        message |-> <<"Validation error for ", name, ":", " ">> \o issues[1]]

\* validateInput(schema, data, context): the parsed bag, or the message of the
\* error it throws.
validateInput(name, params) ==
  LET issues == AllIssues(Schema(name), params) IN
  IF issues = << >>
  THEN [ok |-> TRUE, value |-> Parsed(Schema(name), params), message |-> << >>]
  ELSE [ok |-> FALSE, value |-> NoArgs,
        message |-> <<"Validation error for ", name, ":", " ">>
                    \o Join(issues, <<",", " ">>)]

(***************************************************************************)
(* buildFilter and the year filter of find_similar_works                   *)
(***************************************************************************)

\* x - k and x + k on a number.
Minus(x, k) == JNum(x.n - k)
Plus(x, k) == JNum(x.n + k)

\* A variant of PublicationYear that sends a range as two date bounds.
PublicationYear_TwoKeys(filter, fromYear, toYear) ==
  IF Truthy(fromYear) /\ Truthy(toYear)
  THEN ObjSet(ObjSet(filter, <<"from_publication_date">>, fromYear),
              <<"to_publication_date">>, toYear)
  ELSE IF Truthy(fromYear)
  THEN ObjSet(filter, <<"publication_year">>, JStr(<<">">> \o ToStr(Minus(fromYear, 1))))
  ELSE IF Truthy(toYear)
  THEN ObjSet(filter, <<"publication_year">>, JStr(<<"<">> \o ToStr(Plus(toYear, 1))))
  ELSE filter

\* A variant of PublicationYear whose one-sided bounds exclude the year given.
PublicationYear_Exclusive(filter, fromYear, toYear) ==
  IF Truthy(fromYear) /\ Truthy(toYear)
  THEN ObjSet(filter, <<"publication_year">>,
              JStr(ToStr(fromYear) \o <<"-">> \o ToStr(toYear)))
  ELSE IF Truthy(fromYear)
  THEN ObjSet(filter, <<"publication_year">>, JStr(<<">">> \o ToStr(fromYear)))
  ELSE IF Truthy(toYear)
  THEN ObjSet(filter, <<"publication_year">>, JStr(<<"<">> \o ToStr(toYear)))
  ELSE filter

\* The year entry of a filter: a range when both years are given, `>F-1` for
\* a from-year alone, `<T+1` for a to-year alone.
PublicationYear(filter, fromYear, toYear) ==
  IF Truthy(fromYear) /\ Truthy(toYear)
  THEN ObjSet(filter, <<"publication_year">>,
              JStr(ToStr(fromYear) \o <<"-">> \o ToStr(toYear)))
  ELSE IF Truthy(fromYear)
  THEN ObjSet(filter, <<"publication_year">>, JStr(<<">">> \o ToStr(Minus(fromYear, 1))))
  ELSE IF Truthy(toYear)
  THEN ObjSet(filter, <<"publication_year">>, JStr(<<"<">> \o ToStr(Plus(toYear, 1))))
  ELSE filter

\* if (cond) filter[key] = value
SetIf(filter, cond, key, value) == IF cond THEN ObjSet(filter, <<key>>, value) ELSE filter

\* buildFilter(params)
buildFilter(params) ==
  LET fromYear == Or(params.from_publication_year, params.from_year)
      toYear == Or(params.to_publication_year, params.to_year)
      f1 == PublicationYear(<< >>, fromYear, toYear)
      f2 == SetIf(f1, Truthy(params.cited_by_count), "cited_by_count", params.cited_by_count)
      f3 == SetIf(f2, params.is_oa # JUndefined, "is_oa", params.is_oa)
      f4 == SetIf(f3, Truthy(params.type), "type", params.type)
      f5 == SetIf(f4, Truthy(params.works_count), "works_count", params.works_count)
      f6 == SetIf(f5, Truthy(params.country_code), "country_code", params.country_code)
  IN SetIf(f6, Truthy(params.institution), "institutions.display_name", params.institution)

\* The filter find_similar_works builds from its validated arguments.
SimilarFilter(validated) ==
  LET f1 == PublicationYear(<< >>, validated.from_publication_year,
                            validated.to_publication_year)
  IN SetIf(f1, validated.is_oa # JUndefined, "is_oa", validated.is_oa)

(***************************************************************************)
(* The year filters as functions of the argument bag (FilterSpec)          *)
(***************************************************************************)

\* The years of the bags are 1 and 2020 .. 2020 + YearSpan.
YearSpan == 1

\* A year argument is a positive number, as every schema declares it.
Years == {JNum(1)} \cup {JNum(y) : y \in 2020..(2020 + YearSpan)}
MaybeYears == {JUndefined} \cup Years

\* The bags the two filter builders are applied to.
FilterBags ==
  {[NoArgs EXCEPT !.query = Text("ai"),
                  !.from_publication_year = fp, !.to_publication_year = tp,
                  !.from_year = fy, !.to_year = ty, !.is_oa = oa] :
     fp \in MaybeYears, tp \in MaybeYears, fy \in MaybeYears, ty \in MaybeYears,
     oa \in {JUndefined, JBool(TRUE)}}

\* The values clients send for an optional argument they do not mean to set:
\* the key left out, null, or the empty text.
Unset == {JUndefined, JNull, JStr(<< >>)}

\* The bags that vary the arguments buildFilter passes through.
PassThroughBags ==
  {[NoArgs EXCEPT !.cited_by_count = c, !.is_oa = oa, !.type = ty,
                  !.works_count = wc, !.country_code = cc, !.institution = inst] :
     c \in {JUndefined, JStr(<<">", "100">>)},
     oa \in Unset \cup {JBool(TRUE), JBool(FALSE)},
     ty \in {JStr(<< >>), Text("article")},
     wc \in {JNull, JStr(<<">", "10">>)},
     cc \in {JUndefined, Text("US")},
     inst \in {JUndefined, Text("MIT")}}

FilterInit ==
  /\ cache = << >>
  /\ now = 0
  /\ op = NoOp
  /\ sets = NoSets
  /\ client = KeyConfig
  /\ call = [p \in Procs |-> IdleCall]
  /\ tool = [p \in Procs |-> IdleTool]
  /\ fn \in {[name |-> "input", params |-> bag, out |-> << >>] :
               bag \in FilterBags \cup PassThroughBags}

\* buildFilter is applied to the bag.
EvalBuildFilter ==
  /\ fn.name = "input"
  /\ fn' = [name |-> "buildFilter", params |-> fn.params, out |-> buildFilter(fn.params)]
  /\ UNCHANGED <<cache, now, op, sets, client, call, tool>>

\* find_similar_works validates the bag and builds its filter from the result.
EvalSimilarFilter ==
  /\ fn.name = "input"
  /\ LET validated == validateInput("find_similar_works", fn.params) IN
     /\ validated.ok
     /\ fn' = [name |-> "find_similar_works", params |-> validated.value,
               out |-> SimilarFilter(validated.value)]
  /\ UNCHANGED <<cache, now, op, sets, client, call, tool>>

FilterNext == EvalBuildFilter \/ EvalSimilarFilter

FilterSpec == FilterInit /\ [][FilterNext]_vars

\* The keys of a filter that bear a year.
YearKeys == {<<"publication_year">>, <<"from_publication_date">>, <<"to_publication_date">>}
YearEntries(filter) == SelectSeq(filter, LAMBDA e : e.key \in YearKeys)

\* The from-year and the to-year of the bag a filter builder was given: the
\* *_publication_year argument, or its alias when that one is absent.
FromYearOf(params) ==
  IF params.from_publication_year # JUndefined
  THEN params.from_publication_year ELSE params.from_year
ToYearOf(params) ==
  IF params.to_publication_year # JUndefined
  THEN params.to_publication_year ELSE params.to_year

Built == fn.name \in {"buildFilter", "find_similar_works"}

\* C6: when the bag has both a from-year F and a to-year T, the filter built
\* by buildFilter, and by the filter code of find_similar_works, has exactly
\* one year-bearing entry: publication_year with the value "F-T".
C6_YearRangeCollapse ==
  (Built /\ FromYearOf(fn.params) # JUndefined /\ ToYearOf(fn.params) # JUndefined) =>
    YearEntries(fn.out) =
      <<[key |-> <<"publication_year">>,
         value |-> JStr(<<ToString(FromYearOf(fn.params).n), "-",
                          ToString(ToYearOf(fn.params).n)>>)]>>

\* C6 witnesses: a range built by buildFilter from the alias arguments, and
\* one built by find_similar_works.
C6_Witness ==
  /\ fn.name = "buildFilter"
  /\ fn.params.from_publication_year = JUndefined /\ fn.params.from_year = JNum(2020)
  /\ fn.params.to_year = JNum(2021) /\ fn.params.to_publication_year = JUndefined
  /\ Len(fn.out) = 2

C6_WitnessSimilar ==
  /\ fn.name = "find_similar_works"
  /\ fn.params.from_publication_year = JNum(2020)
  /\ fn.params.to_publication_year = JNum(2021)
  /\ Len(fn.out) = 1

\* C7: a from-year F alone gives the year filter ">F-1", a to-year T alone
\* gives "<T+1", and a bag with neither year gives no publication_year entry.
C7_OneSidedYearBounds ==
  Built =>
    LET F == FromYearOf(fn.params)
        T == ToYearOf(fn.params)
    IN /\ (F # JUndefined /\ T = JUndefined) =>
            YearEntries(fn.out) =
              <<[key |-> <<"publication_year">>, value |-> JStr(<<">", ToString(F.n - 1)>>)]>>
       /\ (F = JUndefined /\ T # JUndefined) =>
            YearEntries(fn.out) =
              <<[key |-> <<"publication_year">>, value |-> JStr(<<"<", ToString(T.n + 1)>>)]>>
       /\ (F = JUndefined /\ T = JUndefined) => YearEntries(fn.out) = << >>

\* C7 witness: a lower bound built from year 1, the smallest year.
C7_Witness ==
  /\ fn.name = "buildFilter"
  /\ FromYearOf(fn.params) = JNum(1) /\ ToYearOf(fn.params) = JUndefined
  /\ fn.out[1].value = JStr(<<">", "0">>)

C7_WitnessUpper ==
  /\ fn.name = "find_similar_works"
  /\ FromYearOf(fn.params) = JUndefined /\ ToYearOf(fn.params) = JNum(2020)
  /\ fn.out[1].value = JStr(<<"<", "2021">>)

(***************************************************************************)
(* The tool dispatch handler of the server                                 *)
(***************************************************************************)

\* new Date().getFullYear()
CurrentYear == 2026

\* The tools the server lists.
ToolNames ==
  {"search_works", "get_work", "get_related_works", "search_by_topic",
   "autocomplete_search", "get_work_citations", "get_work_references",
   "get_citation_network", "get_top_cited_works", "search_authors",
   "get_author_works", "get_author_collaborators", "search_institutions",
   "analyze_topic_trends", "compare_research_areas", "get_trending_topics",
   "analyze_geographic_distribution", "get_entity", "search_sources",
   "health_check", "find_similar_works"}

\* The tools whose case calls validateInput.
ValidatedTools == {"search_works", "find_similar_works"}

\* The client's list and point lookups by entity type.
getWorks(options) == SearchEntities(Text("works"), options)
getWork(id) == GetEntity(Text("works"), id)

\* { [key]: value }
Obj1(key, value) == ObjSet(<< >>, <<key>>, value)

\* x > 0 on an argument.
Positive(x) == x.t = "number" /\ x.n > 0

\* A variant of TopCitedFilter whose comparator excludes the floor itself.
TopCitedFilter_Strict(params) ==
  LET minCitations == IF params.min_citations # JUndefined
                      THEN params.min_citations ELSE JNum(50)
  IN SetIf(buildFilter(params), Positive(minCitations), "cited_by_count",
           JStr(<<">">> \o ToStr(minCitations)))

\* The filter of get_top_cited_works: buildFilter's, with the citation floor.
TopCitedFilter(params) ==
  LET minCitations == IF params.min_citations # JUndefined
                      THEN params.min_citations ELSE JNum(50)
  IN SetIf(buildFilter(params), Positive(minCitations), "cited_by_count",
           JStr(<<">">> \o ToStr(Minus(minCitations, 1))))

\* The filter of get_author_works.
AuthorWorksFilter(params) ==
  SetIf(SetIf(Obj1("authorships.author.id", params.author_id),
              Truthy(params.from_year), "from_publication_date", params.from_year),
        Truthy(params.to_year), "to_publication_date", params.to_year)

\* The first client call of a tool's case, from the arguments the case uses
\* (the validated ones for the tools that validate), with perPage standing
\* for params.per_page || DEFAULT_PAGE_SIZE and filter for buildFilter(params).
RequestWith(name, params, perPage, filter) ==
  CASE name = "search_works" ->
         getWorks([NoOptions EXCEPT !.search = params.query, !.filter = filter,
                                    !.sort = params.sort,
                                    !.page = Or(params.page, JNum(1)),
                                    !.perPage = perPage])
    [] name \in {"get_work", "get_related_works", "get_work_references",
                 "get_citation_network"} -> getWork(params.id)
    [] name = "search_by_topic" ->
         getWorks([NoOptions EXCEPT !.search = params.topic, !.filter = filter,
                                    !.sort = Or(params.sort, Text("relevance_score")),
                                    !.perPage = perPage])
    [] name = "autocomplete_search" -> Autocomplete(params.entity_type, params.query)
    [] name = "get_work_citations" ->
         getWorks([NoOptions EXCEPT !.filter = Some(Obj1("cites", params.id)),
                                    !.page = Or(params.page, JNum(1)),
                                    !.perPage = perPage, !.sort = params.sort])
    [] name = "get_top_cited_works" ->
         getWorks([NoOptions EXCEPT !.search = Or(params.query, params.topic),
                                    !.filter = Some(TopCitedFilter(params)),
                                    !.sort = JStr(<<"cited_by_count", ":", "desc">>),
                                    !.perPage = perPage])
    [] name = "search_authors" ->
         SearchEntities(Text("authors"),
                        [NoOptions EXCEPT !.search = params.query, !.filter = filter,
                                          !.perPage = perPage])
    [] name = "get_author_works" ->
         getWorks([NoOptions EXCEPT !.filter = Some(AuthorWorksFilter(params)),
                                    !.sort = params.sort, !.perPage = perPage])
    [] name = "get_author_collaborators" ->
         getWorks([NoOptions EXCEPT
                     !.filter = Some(Obj1("authorships.author.id", params.author_id)),
                     !.perPage = JNum(200)])
    [] name = "search_institutions" ->
         SearchEntities(Text("institutions"),
                        [NoOptions EXCEPT !.search = params.query, !.filter = filter,
                                          !.perPage = perPage])
    [] name = "analyze_topic_trends" ->
         getWorks([NoOptions EXCEPT !.search = params.query, !.filter = filter,
                                    !.groupBy = Text("publication_year")])
    [] name = "get_trending_topics" ->
         getWorks([NoOptions EXCEPT
                     !.filter = Some(Obj1("from_publication_date",
                                          JNum(CurrentYear
                                               - Or(params.time_period_years, JNum(3)).n))),
                     !.groupBy = Text("topics.id"), !.perPage = perPage])
    [] name = "analyze_geographic_distribution" ->
         getWorks([NoOptions EXCEPT !.search = params.query, !.filter = filter,
                                    !.groupBy = Text("institutions.country_code")])
    [] name = "get_entity" -> GetEntity(params.entity_type, params.id)
    [] name = "search_sources" ->
         SearchEntities(Text("sources"),
                        [NoOptions EXCEPT !.search = params.query, !.filter = filter,
                                          !.perPage = perPage])
    [] name = "find_similar_works" ->
         FindSimilarWorks([NoOptions EXCEPT
                             !.query = params.query, !.count = params.count,
                             !.filter = IF Len(SimilarFilter(params)) > 0
                                        THEN Some(SimilarFilter(params)) ELSE None])
    [] OTHER -> NoReq

Request(name, params) ==
  RequestWith(name, params, Or(params.per_page, JNum(DEFAULT_PAGE_SIZE)),
              Some(buildFilter(params)))

\* The second client call of get_citation_network: the citing works.
CitingRequest(params) ==
  getWorks([NoOptions EXCEPT !.filter = Some(Obj1("cites", params.id)),
                             !.perPage = Or(params.max_citing, JNum(50))])

\* The client call of compare_research_areas for one topic.
CompareRequest(params, topic) ==
  getWorks([NoOptions EXCEPT !.search = Text(topic), !.filter = Some(buildFilter(params)),
                             !.perPage = JNum(1)])

\* work.related_works || [] of a work document: the first version of a work
\* lists two related works, the updated one has no such field.
RelatedIds(work) ==
  IF work = JObj("getEntity") THEN <<Text("W2"), Text("W3")>> ELSE << >>

\* Math.min(params.per_page || DEFAULT_PAGE_SIZE, relatedIds.length)
RelatedLimit(params, work) ==
  Min(Or(params.per_page, JNum(DEFAULT_PAGE_SIZE)).n, Len(RelatedIds(work)))

\* work.referenced_works || [] of a work document: the first version of a
\* work lists three references, the updated one has no such field.
ReferencedWorks(work) ==
  IF work = JObj("getEntity") THEN <<Text("W4"), Text("W5"), Text("W6")>> ELSE << >>

\* Array.prototype.slice(0, end): a negative end counts from the end.
SliceTo(a, end) ==
  IF end >= 0 THEN SubSeq(a, 1, Min(end, Len(a)))
  ELSE SubSeq(a, 1, IF Len(a) + end > 0 THEN Len(a) + end ELSE 0)

\* (work.referenced_works || []).slice(0, params.max_references || 50)
ReferenceIds(params, work) ==
  SliceTo(ReferencedWorks(work), Or(params.max_references, JNum(50)).n)

\* A tool call being handled: the case's position (step counts the client
\* calls begun), the work fetched first, the results pushed so far, and the
\* result returned (isError, error; validation marks an error thrown by
\* validateInput).
NewTool(name, params) ==
  [pc |-> "idle", name |-> name, params |-> params, step |-> 0,
   work |-> JUndefined, pushed |-> 0,
   isError |-> FALSE, error |-> << >>, validation |-> FALSE,
   details |-> << >>, thrown |-> << >>,
   related |-> << >>, lookups |-> << >>, references |-> << >>]

\* What the handler does next.
DoCall(t, req) == [do |-> "call", req |-> req, error |-> << >>, validation |-> FALSE, t |-> t]
DoReturn(t) == [do |-> "return", req |-> NoReq, error |-> << >>, validation |-> FALSE, t |-> t]
DoThrow(t, error, validation) ==
  [do |-> "throw", req |-> NoReq, error |-> error, validation |-> validation, t |-> t]

\* After the awaited client call c: its error propagates, its result returns.
AfterCall(t, c) == IF c.ok THEN DoReturn(t) ELSE DoThrow(t, c.error, FALSE)

\* The loop of get_related_works at index i.
RelatedLoop(t, i) ==
  IF i < RelatedLimit(t.params, t.work)
  THEN DoCall(t, getWork(RelatedIds(t.work)[i + 1]))
  ELSE DoReturn(t)

\* A variant of RelatedNext in which a failed lookup fails the invocation.
RelatedNext_Abort(t, c) ==
  IF c.ok
  THEN RelatedLoop([t EXCEPT !.pushed = @ + 1,
                             !.related = Append(@, [id |-> c.req.id, work |-> c.result]),
                             !.lookups = Append(@, [id |-> c.req.id, ok |-> c.ok])],
                   t.step - 1)
  ELSE DoThrow(t, c.error, FALSE)

\* The body of the loop of get_related_works once its lookup c has returned
\* or thrown: the summary of a work found is pushed, a failure is skipped
\* (lookups remembers every lookup made and how it ended).
RelatedNext(t, c) ==
  RelatedLoop([t EXCEPT !.pushed = @ + (IF c.ok THEN 1 ELSE 0),
                        !.related = IF c.ok
                                    THEN Append(@, [id |-> c.req.id, work |-> c.result])
                                    ELSE @,
                        !.lookups = Append(@, [id |-> c.req.id, ok |-> c.ok])],
              t.step - 1)

\* The arguments the case of a tool works on: the result of validateInput
\* for the tools that validate, the raw bag for the others.
Validated(name, params) ==
  IF name \in ValidatedTools THEN validateInput(name, params)
  ELSE [ok |-> TRUE, value |-> params, message |-> << >>]

\* A variant of UnknownTool: a switch without a default case.
UnknownTool_NoDefault(name) == FALSE

\* default: the name matches no case of the switch.
UnknownTool(name) == name \notin ToolNames

\* The next thing the case of tool call t does, at its start (step 0) or when
\* the client call c it awaited has returned or thrown; validated is the
\* outcome of the case's validation and first the case's first client call.
PlanWith(t, c, validated, first) ==
  CASE ~validated.ok -> DoThrow(t, validated.message, TRUE)
    [] t.name = "get_citation_network" /\ t.step = 1 ->
         IF c.ok THEN DoCall([t EXCEPT !.work = c.result], CitingRequest(t.params))
         ELSE DoThrow(t, c.error, FALSE)
    [] t.name = "get_citation_network" /\ t.step = 2 ->
         IF c.ok THEN DoReturn([t EXCEPT !.references = ReferenceIds(t.params, t.work)])
         ELSE DoThrow(t, c.error, FALSE)
    [] t.name = "get_related_works" /\ t.step >= 1 ->
         IF t.step = 1
         THEN IF c.ok THEN RelatedLoop([t EXCEPT !.work = c.result], 0)
              ELSE DoThrow(t, c.error, FALSE)
         ELSE RelatedNext(t, c)
    [] t.name = "compare_research_areas" ->
         IF t.step >= 1 /\ ~c.ok THEN DoThrow(t, c.error, FALSE)
         ELSE IF t.params.topics.t # "array"
         THEN DoThrow(t, <<"params.topics is not iterable">>, FALSE)
         ELSE IF t.step < Len(t.params.topics.s)
         THEN DoCall([t EXCEPT !.pushed = t.step],
                     CompareRequest(t.params, t.params.topics.s[t.step + 1]))
         ELSE DoReturn([t EXCEPT !.pushed = t.step])
    [] t.name = "health_check" -> DoReturn(t)
    [] UnknownTool(t.name) -> DoThrow(t, <<"Unknown tool", ":", " ", t.name>>, FALSE)
    [] OTHER -> IF t.step = 0 THEN DoCall(t, first) ELSE AfterCall(t, c)

Plan(t, c) ==
  PlanWith(t, c, Validated(t.name, t.params),
           Request(t.name, Validated(t.name, t.params).value))

STACK_LINES == 3
MaxFrames == 4

\* The constructor name of a thrown error: the handler's own throws and the
\* client's are Errors, iterating a topics argument that is no array is a
\* TypeError.
ErrorType(error) ==
  IF error = <<"params.topics is not iterable">> THEN "TypeError" ELSE "Error"

\* error.stack as its lines: the error's name and message, then one line per
\* stack frame the runtime recorded.
StackOf(error, frames) ==
  <<<<ErrorType(error), ":", " ">> \o error>>
    \o [i \in 1..frames |-> <<"    at frame ", ToString(i)>>]

\* A variant of StackExcerpt that reports the whole trace.
StackExcerpt_Whole(stack) == stack

\* error.stack.split('\n').slice(0, 3)
StackExcerpt(stack) == SubSeq(stack, 1, Min(STACK_LINES, Len(stack)))

\* The catch block's errorDetails for an Error thrown while handling a call
\* of the tool name.
ErrorDetails(name, error, stack, time) ==
  [tool |-> name, error |-> error, timestamp |-> time, type |-> ErrorType(error),
   stack |-> StackExcerpt(stack)]

\* The handler acts on its plan: it begins the client call and awaits it, or
\* returns its result; the catch block turns a throw into an error-flagged
\* result whose body holds the error's details (thrown remembers the whole
\* stack of the error caught).
Act(p, plan) ==
  IF plan.do = "call"
  THEN /\ Begin(p, plan.req)
       /\ tool' = [tool EXCEPT ![p] = [plan.t EXCEPT !.pc = "await", !.step = @ + 1]]
  ELSE /\ \E frames \in 1..MaxFrames :
            tool' = [tool EXCEPT ![p] =
                       IF plan.do = "throw"
                       THEN [plan.t EXCEPT
                               !.pc = "done", !.isError = TRUE,
                               !.error = plan.error,
                               !.validation = plan.validation,
                               !.details = <<ErrorDetails(plan.t.name, plan.error,
                                                          StackOf(plan.error, frames), now)>>,
                               !.thrown = StackOf(plan.error, frames)]
                       ELSE [plan.t EXCEPT !.pc = "done"]]
       /\ UNCHANGED <<cache, call>>

\* The handler of invocation p runs from tool call t up to its next await or
\* to its result.
Advance(p, t, c) == Act(p, Plan(t, c))

Works == {Text("W1")}
BareDoi == JStr(<<"10.1371", "/", "journal.pone.0000000">>)
PrefixedDoi == JStr(<<"doi", ":", "10.1371", "/", "journal.pone.0000000">>)
DoiUrl == JStr(<<"https", ":", "/", "/", "doi.org", "/", "10.48550", "/", "arXiv.2403.13093">>)
Sorts == {JUndefined, Text("cited_by_count"), JStr(<<"publication_date", ":", "asc">>)}
PageSizes == {JUndefined, JNum(MAX_PAGE_SIZE), JNum(500)}
YearPairs == {<<JUndefined, JUndefined>>, <<JNum(2020), JNum(2023)>>}

\* The argument bags clients send, by tool: bags of the declared shape and
\* bags that break it (a required field missing, a number out of bounds, a
\* value outside an enumeration, a wrong type).
Bags(name) ==
  CASE name = "search_works" ->
         {[NoArgs EXCEPT !.query = Text("ai"), !.sort = so, !.per_page = pp,
                         !.from_publication_year = ys[1],
                         !.to_publication_year = ys[2]] :
            so \in Sorts, pp \in PageSizes, ys \in YearPairs}
    [] name = "get_work" ->
         {[NoArgs EXCEPT !.id = id] :
            id \in Works \cup {BareDoi, PrefixedDoi, DoiUrl, JUndefined}}
    [] name = "get_related_works" ->
         {[NoArgs EXCEPT !.id = id, !.per_page = pp] :
            id \in Works \cup {JUndefined}, pp \in {JUndefined, JNum(1)}}
    [] name = "search_by_topic" ->
         {[NoArgs EXCEPT !.topic = tp, !.sort = so, !.per_page = pp,
                         !.from_year = ys[1], !.to_year = ys[2]] :
            tp \in {Text("ai"), JUndefined}, so \in Sorts, pp \in PageSizes,
            ys \in YearPairs}
    [] name = "autocomplete_search" ->
         {[NoArgs EXCEPT !.query = q, !.entity_type = et] :
            q \in {Text("hin"), JUndefined}, et \in {Text("authors"), Text("journals")}}
    [] name = "get_work_citations" ->
         {[NoArgs EXCEPT !.id = id, !.sort = so, !.per_page = pp] :
            id \in Works \cup {JUndefined}, so \in Sorts, pp \in PageSizes}
    [] name = "get_work_references" ->
         {[NoArgs EXCEPT !.id = id] : id \in Works \cup {JNum(7)}}
    [] name = "get_citation_network" ->
         {[NoArgs EXCEPT !.id = id, !.max_citing = mc, !.depth = dp,
                         !.max_references = mr] :
            id \in Works \cup {JUndefined}, mc \in {JUndefined, JNum(1000)},
            dp \in {JUndefined, JNum(3)},
            mr \in {JUndefined, JNum(2), JNum(0), JNum(-1)}}
    [] name = "get_top_cited_works" ->
         {[NoArgs EXCEPT !.query = Text("ai"), !.min_citations = mc, !.per_page = pp] :
            mc \in {JUndefined, JNum(0), JNum(100)}, pp \in PageSizes}
    [] name = "search_authors" ->
         {[NoArgs EXCEPT !.query = Text("hinton"), !.institution = inst, !.per_page = pp] :
            inst \in {JUndefined, Text("MIT")}, pp \in PageSizes}
    [] name = "get_author_works" ->
         {[NoArgs EXCEPT !.author_id = id, !.sort = so, !.per_page = pp,
                         !.from_year = ys[1], !.to_year = ys[2]] :
            id \in {Text("A1"), JUndefined}, so \in Sorts, pp \in {JUndefined, JNum(500)},
            ys \in YearPairs}
    [] name = "get_author_collaborators" ->
         {[NoArgs EXCEPT !.author_id = id] : id \in {Text("A1"), JUndefined}}
    [] name = "search_institutions" ->
         {[NoArgs EXCEPT !.query = Text("mit"), !.country_code = cc, !.per_page = pp] :
            cc \in {JUndefined, Text("US"), Text("USA")}, pp \in PageSizes}
    [] name = "analyze_topic_trends" ->
         {[NoArgs EXCEPT !.query = q, !.from_year = ys[1], !.to_year = ys[2]] :
            q \in {Text("ai"), JUndefined}, ys \in YearPairs}
    [] name = "compare_research_areas" ->
         {[NoArgs EXCEPT !.topics = tps] :
            tps \in {JArr(<<"ai", "ml">>), JArr(<<"ai">>), JUndefined}}
    [] name = "get_trending_topics" ->
         {[NoArgs EXCEPT !.time_period_years = tp, !.per_page = pp] :
            tp \in {JUndefined, JNum(5)}, pp \in PageSizes}
    [] name = "analyze_geographic_distribution" ->
         {[NoArgs EXCEPT !.query = q] : q \in {Text("ai"), JUndefined}}
    [] name = "get_entity" ->
         {[NoArgs EXCEPT !.entity_type = et, !.id = id] :
            et \in {Text("works"), Text("authors"), Text("journals")},
            id \in {Text("A1"), BareDoi, DoiUrl, JUndefined}}
    [] name = "search_sources" ->
         {[NoArgs EXCEPT !.query = Text("nature"), !.is_oa = oa, !.per_page = pp] :
            oa \in {JUndefined, JBool(TRUE), Text("yes")}, pp \in PageSizes}
    [] name = "find_similar_works" ->
         {[NoArgs EXCEPT !.query = q, !.count = ct,
                         !.from_publication_year = ys[1],
                         !.to_publication_year = ys[2]] :
            q \in {Text("drug discovery"), JUndefined},
            ct \in {JUndefined, JNum(10), JNum(101)}, ys \in YearPairs}
    [] OTHER -> {NoArgs}

\* The names clients call: the listed tools and one the server does not have.
CalledNames == ToolNames \cup {"no_such_tool"}

ToolInit ==
  /\ cache = << >>
  /\ now = 0
  /\ op = NoOp
  /\ sets = NoSets
  /\ client = KeyConfig
  /\ call = [p \in Procs |-> IdleCall]
  /\ tool = [p \in Procs |-> IdleTool]
  /\ fn = NoFn

\* A CallToolRequest arrives: the handler runs to its first await or result.
CallTool(p) ==
  /\ tool[p].pc = "idle"
  /\ \E name \in CalledNames : \E params \in Bags(name) :
       Advance(p, NewTool(name, params), IdleCall)
  /\ UNCHANGED <<now, op, sets, client, fn>>

\* The client call the handler awaits has returned or thrown: the handler
\* runs on to its next await or to its result.
Resume(p) ==
  /\ tool[p].pc = "await"
  /\ call[p].pc = "done"
  /\ Advance(p, tool[p], call[p])
  /\ UNCHANGED <<now, op, sets, client, fn>>

ToolNext ==
  \/ CallTool(Caller)
  \/ Resume(Caller)
  \/ Succeed(Caller)
  \/ Fail(Caller)
  \/ Wake(Caller)

ToolSpec == ToolInit /\ [][ToolNext]_vars

(***************************************************************************)
(* Claims about the requests a tool call sends upstream (ToolSpec)         *)
(***************************************************************************)

\* Invocation p has a GET in flight.
InFlight(p) == call[p].pc = "request"

\* The value of parameter key among params, << >> when it is not set.
ParamOf(params, key) ==
  LET i == IndexOf(params, <<key>>) IN
  IF i = 0 THEN << >> ELSE <<ToStr(params[i].value)>>

\* encodeURIComponent on the characters an id can hold.
encodeURIComponent(s) ==
  [i \in 1..Len(s) |-> IF s[i] = "/" THEN "%2F" ELSE IF s[i] = ":" THEN "%3A" ELSE s[i]]

\* The id segment C5 asks for: a URL percent-encoded whole, a bare DOI (an id
\* that starts with the DOI directory indicator "10.") prefixed with doi:,
\* any other id as it is.
NormalizedId(s) ==
  IF s[1] \in {"http", "https"} THEN encodeURIComponent(s)
  ELSE IF s[1] \in {"10.1371", "10.48550"} THEN <<"doi", ":">> \o s
  ELSE s

\* C5: every point lookup requests /{entityType}/{segment}, where segment is the
\* id unchanged for a native or doi:-prefixed id, doi:{id} for a bare DOI and
\* the percent-encoded id for an id that begins with http.
C5_IdNormalization ==
  \A p \in Procs :
    (InFlight(p) /\ call[p].req.kind = "getEntity"
       /\ call[p].req.id.t = "string" /\ call[p].req.id.s # << >>) =>
      HttpOf(client, call[p].req).path =
        <<"/">> \o ToStr(call[p].req.entityType) \o <<"/">>
        \o NormalizedId(call[p].req.id.s)

\* C8: a list query transmits a sort without ':' as "{sort}:desc", a sort that
\* carries ':asc' or ':desc' unchanged, and no sort parameter when no sort is
\* supplied.
C8_SortNormalization ==
  \A p \in Procs :
    (InFlight(p) /\ call[p].req.kind = "searchEntities") =>
      LET sort == call[p].req.options.sort
          sent == ParamOf(HttpOf(client, call[p].req).params, "sort")
      IN IF sort.t # "string" THEN sent = << >>
         ELSE IF Contains(sort.s, ":") THEN sent = <<sort.s>>
         ELSE sent = <<sort.s \o <<":", "desc">>>>

\* C9: a tool call whose argument bag breaks the shape the tool declares ends
\* in an error-flagged validation result, without a client call: no cache
\* lookup, no upstream request, no cache entry.
C9_ValidationPrecedes ==
  \A p \in Procs :
    (tool[p].pc # "idle" /\ tool[p].name \in ToolNames
       /\ ~Conforms(tool[p].name, tool[p].params)) =>
      /\ tool[p].pc = "done" /\ tool[p].isError /\ tool[p].validation
      /\ call[p] = IdleCall
      /\ cache = << >>

\* C10: no upstream list request carries a per_page greater than MAX_PAGE_SIZE.
C10_PageSizeBound ==
  \A p \in Procs :
    (InFlight(p) /\ call[p].req.kind = "searchEntities") =>
      LET sent == ParamOf(HttpOf(client, call[p].req).params, "per_page") IN
      sent # << >> => sent[1] \in {<<ToString(n)>> : n \in 1..MAX_PAGE_SIZE}

\* C11: get_entity and autocomplete_search send a request (and build a cache
\* key) only for an entity_type among the seven entity kinds; any other
\* entity_type ends in an error without a client call.
C11_EntityTypeRestricted ==
  \A p \in Procs :
    (tool[p].pc # "idle" /\ tool[p].name \in {"get_entity", "autocomplete_search"}
       /\ ~(tool[p].params.entity_type.t = "string"
            /\ tool[p].params.entity_type.s \in {<<e>> : e \in EntityTypes})) =>
      /\ tool[p].pc = "done" /\ tool[p].isError
      /\ call[p] = IdleCall
      /\ cache = << >>

(***************************************************************************)
(* The projections of a work record (ProjectionSpec).  Here a text is the  *)
(* sequence of its characters.                                             *)
(***************************************************************************)

\* The literals of summarizeWork.
MAX_AUTHORS_IN_SUMMARY == 5
MAX_INSTITUTIONS == 2
MAX_ABSTRACT_KEYS == 100
MAX_ABSTRACT_LENGTH == 500

\* Bounds of the work records: authorship entries, words of an abstract,
\* keys of an inverted index and characters of a key.
MaxAuthors == 6
MaxWords == 4
MaxKeys == 101
MaxWordLen == 6

\* array.slice(0, n)
Slice(a, n) == SubSeq(a, 1, Min(n, Len(a)))

\* A variant of SummaryAuthors that keeps the last entries instead of the first.
SummaryAuthors_Last(authorships) ==
  IF authorships = None THEN << >>
  ELSE LET a == authorships[1]
           kept == SubSeq(a, Len(a) - Min(MAX_AUTHORS_IN_SUMMARY, Len(a)) + 1, Len(a))
       IN [i \in 1..Len(kept) |->
             [name |-> kept[i].author,
              institutions |-> IF kept[i].institutions = None THEN None
                               ELSE Some(Slice(kept[i].institutions[1], MAX_INSTITUTIONS))]]

\* work.authorships?.slice(0, 5).map(a => ({ name, institutions })) || []
SummaryAuthors(authorships) ==
  IF authorships = None THEN << >>
  ELSE LET kept == Slice(authorships[1], MAX_AUTHORS_IN_SUMMARY) IN
       [i \in 1..Len(kept) |->
          [name |-> kept[i].author,
           institutions |-> IF kept[i].institutions = None THEN None
                            ELSE Some(Slice(kept[i].institutions[1], MAX_INSTITUTIONS))]]

\* work.authorships?.length > 5 (undefined > 5 is false)
AuthorsTruncated(authorships) ==
  authorships # None /\ Len(authorships[1]) > MAX_AUTHORS_IN_SUMMARY

\* Object.keys(index).slice(0, 100).join(' ').substring(0, 500) + '...', or
\* null without an index.
SummaryAbstract(index) ==
  IF index = None THEN JNull
  ELSE LET keys == [i \in 1..Len(index[1]) |-> index[1][i].word]
           joined == Join(Slice(keys, MAX_ABSTRACT_KEYS), <<" ">>)
       IN JStr(Slice(joined, MAX_ABSTRACT_LENGTH) \o <<".", ".", ".">>)

\* The literals of getFullWorkDetails.
MAX_TOPICS == 5
MAX_KEYWORDS == 10
MAX_GRANTS == 5

\* A variant of Guarded that reads the part with a plain property access: a
\* TypeError when the part is absent.
Guarded_Plain(part, default, projected) ==
  IF part = None THEN [threw |-> TRUE, v |-> default]
  ELSE [threw |-> FALSE, v |-> projected]

\* The guarded reads of the projections (part?.x || default, part ? {...} :
\* null, part || default): the default when the part is absent, its
\* projection (read only when the part is present) otherwise, and no
\* exception either way.
Guarded(part, default, projected) ==
  IF part = None THEN [threw |-> FALSE, v |-> default]
  ELSE [threw |-> FALSE, v |-> projected]

\* primary_topic of both projections: null (None here) without a topic.
PrimaryTopic(topic) ==
  Guarded(topic, None,
          LET t == topic[1]
          IN Some([display_name |-> t.display_name, field |-> t.field,
                   subfield |-> t.subfield]))

\* open_access of both projections: an object whose fields are undefined
\* without the part.
OpenAccess(oa) ==
  Guarded(oa, [is_oa |-> None, oa_status |-> None, oa_url |-> None],
          LET o == oa[1]
          IN [is_oa |-> Some(o.is_oa), oa_status |-> Some(o.oa_status),
              oa_url |-> o.oa_url])

\* work.primary_location?.landing_page_url
LandingPageUrl(location) == Guarded(location, None, location[1].landing_page_url)

\* work.primary_location?.source?.display_name
SourceName(location) == Guarded(location, None, location[1].source)

\* summarizeWork(work): the parts of the summary that depend on optional
\* parts of the record; threw tells whether the projection raised.
summarizeWork(work) ==
  LET topic == PrimaryTopic(work.primary_topic)
      oa == OpenAccess(work.open_access)
      url == LandingPageUrl(work.primary_location)
      source == SourceName(work.primary_location)
  IN [authors |-> SummaryAuthors(work.authorships),
      authors_truncated |-> AuthorsTruncated(work.authorships),
      abstract |-> SummaryAbstract(work.abstract_inverted_index),
      primary_topic |-> topic.v, open_access |-> oa.v,
      landing_page_url |-> url.v, source |-> source.v,
      threw |-> topic.threw \/ oa.threw \/ url.threw \/ source.threw]

\* summarizeWorksList(response): response.results?.map(summarizeWork) || []
summarizeWorksList(response) ==
  LET results == Guarded(response.results, << >>,
                         LET r == response.results[1]
                         IN [i \in 1..Len(r) |-> summarizeWork(r[i])])
  IN [results |-> results.v,
      threw |-> results.threw \/ \E i \in 1..Len(results.v) : results.v[i].threw]

\* The elements of a sequence.
Range(a) == {a[i] : i \in 1..Len(a)}

\* A variant of Placed that places a word at its first position only.
Placed_FirstOnly(positions) == IF positions = << >> THEN {} ELSE {positions[1]}

\* positions.forEach(pos => { words[pos] = word }): the positions assigned.
Placed(positions) == Range(positions)

\* The words object after the loop over Object.entries(invertedIndex): each
\* position holds the word of the last entry that was placed there.
PlaceWords(entries) ==
  LET at(pos) == {i \in 1..Len(entries) : pos \in Placed(entries[i].positions)} IN
  [pos \in UNION {Placed(entries[i].positions) : i \in 1..Len(entries)} |->
     entries[CHOOSE i \in at(pos) : \A j \in at(pos) : j <= i].word]

\* positions.sort((a, b) => a - b)
SortAscending(S) ==
  [i \in 1..Cardinality(S) |->
     CHOOSE x \in S : Cardinality({y \in S : y < x}) = i - 1]

\* reconstructAbstract(invertedIndex)
reconstructAbstract(entries) ==
  LET words == PlaceWords(entries)
      sortedPositions == SortAscending(DOMAIN words)
  IN Join([i \in 1..Len(sortedPositions) |-> words[sortedPositions[i]]], <<" ">>)

\* A variant of FullAuthors that tests for the final index before the first.
FullAuthors_LastFirst(authorships) ==
  Guarded(authorships, << >>,
          LET a == authorships[1]
          IN [i \in 1..Len(a) |->
                        [position |-> IF i = Len(a) THEN "last"
                                      ELSE IF i = 1 THEN "first" ELSE "middle",
                         name |-> a[i].author,
                         institutions |-> IF a[i].institutions = None THEN << >>
                                          ELSE a[i].institutions[1]]])

\* authors of the full details: every authorship entry, with its position.
FullAuthors(authorships) ==
  Guarded(authorships, << >>,
          LET a == authorships[1]
          IN [i \in 1..Len(a) |->
                        [position |-> IF i = 1 THEN "first"
                                      ELSE IF i = Len(a) THEN "last" ELSE "middle",
                         name |-> a[i].author,
                         institutions |-> IF a[i].institutions = None THEN << >>
                                          ELSE a[i].institutions[1]]])

\* primary_location of the full details: null (None here) without the part.
PrimaryLocation(location) ==
  Guarded(location, None,
          LET l == location[1]
          IN Some([landing_page_url |-> l.landing_page_url,
                   source |-> l.source]))

\* part?.slice(0, n).map(...) || []
SlicedPart(part, n) == Guarded(part, << >>, Slice(part[1], n))

\* part || []
ListPart(part) == Guarded(part, << >>, part[1])

\* getFullWorkDetails(work): the parts of the full details that depend on
\* optional parts of the record; threw tells whether the projection raised.
getFullWorkDetails(work) ==
  LET authors == FullAuthors(work.authorships)
      topic == PrimaryTopic(work.primary_topic)
      topics == SlicedPart(work.topics, MAX_TOPICS)
      oa == OpenAccess(work.open_access)
      url == LandingPageUrl(work.primary_location)
      location == PrimaryLocation(work.primary_location)
      keywords == SlicedPart(work.keywords, MAX_KEYWORDS)
      grants == SlicedPart(work.grants, MAX_GRANTS)
      referenced == ListPart(work.referenced_works)
      related == ListPart(work.related_works)
  IN [abstract |-> IF work.abstract_inverted_index = None THEN JNull
                   ELSE JStr(reconstructAbstract(work.abstract_inverted_index[1])),
      authors |-> authors.v, primary_topic |-> topic.v, topics |-> topics.v,
      open_access |-> oa.v, landing_page_url |-> url.v,
      primary_location |-> location.v, keywords |-> keywords.v,
      grants |-> grants.v, referenced_works |-> referenced.v,
      related_works |-> related.v,
      threw |-> \/ authors.threw \/ topic.threw \/ topics.threw \/ oa.threw
                \/ url.threw \/ location.threw \/ keywords.threw \/ grants.threw
                \/ referenced.threw \/ related.threw]

\* The sequences over S of length at most n.
SeqsUpTo(S, n) == UNION {[1..k -> S] : k \in 0..n}

\* The authorship entries of the work records: an author with three
\* institutions, and an entry without author name and institutions.
Authorships ==
  {[author |-> Text("Ann"), institutions |-> Some(<<"MIT", "CMU", "ETH">>)],
   [author |-> JUndefined, institutions |-> None]}

\* The words of the abstracts.
Words == {<<"t", "h", "e">>, <<"c", "a", "t">>, <<"o", "n">>}

\* The positions at which word occurs in the word sequence w, ascending.
PositionsOf(w, word) ==
  SortAscending({i - 1 : i \in {j \in 1..Len(w) : w[j] = word}})

RECURSIVE FirstOccurrences(_, _)
\* The distinct words of w from position i on that did not occur before, in
\* the order of their first occurrence.
FirstOccurrences(w, i) ==
  IF i > Len(w) THEN << >>
  ELSE (IF \E j \in 1..(i - 1) : w[j] = w[i] THEN << >> ELSE <<w[i]>>)
       \o FirstOccurrences(w, i + 1)

\* The inverted index upstream sends for the abstract w: each word with the
\* positions 0 .. n-1 it occupies.
InvertedIndex(w) ==
  LET distinct == FirstOccurrences(w, 1) IN
  [i \in 1..Len(distinct) |->
     [word |-> distinct[i], positions |-> PositionsOf(w, distinct[i])]]

\* An inverted index of n keys of len characters each; the characters of the
\* i-th key are written ToString(i).
KeysIndex(n, len) ==
  [i \in 1..n |-> [word |-> [j \in 1..len |-> ToString(i)], positions |-> <<i - 1>>]]

\* A work record without any of its optional parts (abstract is no field of
\* the record: it remembers the text the inverted index encodes).
NoWork ==
  [authorships |-> None, abstract_inverted_index |-> None, abstract |-> << >>,
   primary_topic |-> None, open_access |-> None, primary_location |-> None,
   topics |-> None, keywords |-> None, grants |-> None,
   referenced_works |-> None, related_works |-> None]

\* n identifiers.
Ids(n) == [i \in 1..n |-> ToString(i)]

\* The optional parts as upstream sends them.
SampleAuthorships ==
  <<[author |-> Text("Ann"), institutions |-> Some(<<"MIT", "CMU", "ETH">>)],
    [author |-> JUndefined, institutions |-> None]>>
SampleAbstract == <<<<"t", "h", "e">>, <<"c", "a", "t">>>>
SampleTopic == [display_name |-> "AI", field |-> Some("Computer Science"), subfield |-> None]
SampleOpenAccess == [is_oa |-> TRUE, oa_status |-> "gold", oa_url |-> None]
SampleLocation == [landing_page_url |-> Some("https://example.org/w1"), source |-> None]

\* The work records in which any subset of the optional parts is absent.
PartialWorks ==
  {[authorships |-> IF "authorships" \in present THEN Some(SampleAuthorships) ELSE None,
    abstract_inverted_index |-> IF "abstract_inverted_index" \in present
                                THEN Some(InvertedIndex(SampleAbstract)) ELSE None,
    abstract |-> IF "abstract_inverted_index" \in present THEN SampleAbstract ELSE << >>,
    primary_topic |-> IF "primary_topic" \in present THEN Some(SampleTopic) ELSE None,
    open_access |-> IF "open_access" \in present THEN Some(SampleOpenAccess) ELSE None,
    primary_location |-> IF "primary_location" \in present THEN Some(SampleLocation)
                         ELSE None,
    topics |-> IF "topics" \in present THEN Some(Ids(MAX_TOPICS + 1)) ELSE None,
    keywords |-> IF "keywords" \in present THEN Some(Ids(MAX_KEYWORDS + 1)) ELSE None,
    grants |-> IF "grants" \in present THEN Some(Ids(MAX_GRANTS + 1)) ELSE None,
    referenced_works |-> IF "referenced_works" \in present THEN Some(Ids(2)) ELSE None,
    related_works |-> IF "related_works" \in present THEN Some(Ids(2)) ELSE None] :
     present \in SUBSET {"authorships", "abstract_inverted_index", "primary_topic",
                         "open_access", "primary_location", "topics", "keywords",
                         "grants", "referenced_works", "related_works"}}

\* The work records the projections are applied to: records that vary in
\* their authorships, in their abstract, in the size of their index, and in
\* the parts they lack.
WorkRecords ==
  {[NoWork EXCEPT !.authorships = a] :
     a \in {None} \cup {Some(x) : x \in SeqsUpTo(Authorships, MaxAuthors)}}
  \cup {[NoWork EXCEPT !.abstract_inverted_index = Some(InvertedIndex(w)),
                       !.abstract = w] : w \in SeqsUpTo(Words, MaxWords)}
  \cup {[NoWork EXCEPT !.abstract_inverted_index = Some(KeysIndex(n, len))] :
          n \in 0..MaxKeys, len \in 1..MaxWordLen}
  \cup PartialWorks

ProjectionInit ==
  /\ cache = << >>
  /\ now = 0
  /\ op = NoOp
  /\ sets = NoSets
  /\ client = KeyConfig
  /\ call = [p \in Procs |-> IdleCall]
  /\ tool = [p \in Procs |-> IdleTool]
  /\ fn \in {[name |-> "input", params |-> work, out |-> << >>] : work \in WorkRecords}

\* summarizeWork is applied to the work record.
EvalSummarizeWork ==
  /\ fn.name = "input"
  /\ fn' = [name |-> "summarizeWork", params |-> fn.params, out |-> summarizeWork(fn.params)]
  /\ UNCHANGED <<cache, now, op, sets, client, call, tool>>

\* getFullWorkDetails is applied to the work record.
EvalFullWorkDetails ==
  /\ fn.name = "input"
  /\ fn' = [name |-> "getFullWorkDetails", params |-> fn.params,
            out |-> getFullWorkDetails(fn.params)]
  /\ UNCHANGED <<cache, now, op, sets, client, call, tool>>

\* summarizeWorksList is applied to a response without results, or with the
\* work record as its only result.
EvalSummarizeWorksList ==
  /\ fn.name = "input"
  /\ \E results \in {None, Some(<<fn.params>>)} :
       fn' = [name |-> "summarizeWorksList", params |-> [results |-> results],
              out |-> summarizeWorksList([results |-> results])]
  /\ UNCHANGED <<cache, now, op, sets, client, call, tool>>

ProjectionNext == EvalSummarizeWork \/ EvalFullWorkDetails \/ EvalSummarizeWorksList

ProjectionSpec == ProjectionInit /\ [][ProjectionNext]_vars

\* C12: summarizeWork returns at most 5 authors, the projections of the first
\* 5 authorship entries in source order, and authors_truncated is true exactly
\* when the work has more than 5 authorship entries.
C12_SummaryAuthorBound ==
  fn.name = "summarizeWork" =>
    LET source == IF fn.params.authorships = None THEN << >>
                  ELSE fn.params.authorships[1]
        authors == fn.out.authors
    IN /\ Len(authors) <= 5
       /\ Len(authors) = Min(5, Len(source))
       /\ \A i \in 1..Len(authors) : authors[i].name = source[i].author
       /\ fn.out.authors_truncated <=> Len(source) > 5

\* C12 witness: a work with six authorship entries whose sixth differs from
\* its first.
C12_Witness ==
  /\ fn.name = "summarizeWork"
  /\ fn.params.authorships # None
  /\ Len(fn.params.authorships[1]) = 6
  /\ fn.params.authorships[1][1] # fn.params.authorships[1][6]
  /\ fn.out.authors_truncated

\* C13: for the inverted index of a word sequence w, reconstructAbstract
\* returns the words of w in position order joined by single spaces.
C13_AbstractReconstruction ==
  (fn.name = "getFullWorkDetails" /\ fn.params.abstract_inverted_index # None
     /\ fn.params.abstract_inverted_index[1] = InvertedIndex(fn.params.abstract)) =>
    fn.out.abstract = JStr(Join(fn.params.abstract, <<" ">>))

\* C13 witness: an abstract of four words in which a word occurs twice, not
\* next to itself.
C13_Witness ==
  /\ fn.name = "getFullWorkDetails"
  /\ Len(fn.params.abstract) = 4
  /\ fn.params.abstract[1] = fn.params.abstract[3]
  /\ fn.params.abstract[1] # fn.params.abstract[2]
  /\ Len(fn.params.abstract_inverted_index[1]) = 3

\* C14: the abstract of the summary is at most 500 characters long and is
\* built from at most the first 100 keys of the index; without an index it
\* is null.
C14_SummaryAbstractBound ==
  fn.name = "summarizeWork" =>
    IF fn.params.abstract_inverted_index = None THEN fn.out.abstract = JNull
    ELSE /\ fn.out.abstract.t = "string"
         /\ Len(fn.out.abstract.s) <= 500
         /\ \A i \in 1..Len(fn.params.abstract_inverted_index[1]) :
              (\E c \in Range(fn.params.abstract_inverted_index[1][i].word) :
                 c \in Range(fn.out.abstract.s)) => i <= 100

\* ---------------------------------------------------------------------------
\* Backoff and error classification of the retry loop, under Spec.

MaxAttempt == 6

IsPrefix(a, b) == Len(a) <= Len(b) /\ \A i \in 1..Len(a) : a[i] = b[i]

\* C15: the delay slept after the failed attempt a is
\* min(INITIAL_DELAY_MS * BACKOFF_FACTOR^a, MAX_DELAY_MS), that is 1000 and
\* then 2000 with three attempts; the delays never decrease and never exceed
\* MAX_DELAY_MS; exactly one sleep lies between two consecutive attempts and
\* no sleep follows the final failed attempt.
C15_CappedBackoff ==
  /\ \A a \in 0..MaxAttempt :
       /\ Delay(a) <= MAX_DELAY_MS
       /\ Delay(a) <= Delay(a + 1)
       /\ (INITIAL_DELAY_MS * Pow(BACKOFF_FACTOR, a) <= MAX_DELAY_MS
             => Delay(a) = INITIAL_DELAY_MS * Pow(BACKOFF_FACTOR, a))
       /\ (INITIAL_DELAY_MS * Pow(BACKOFF_FACTOR, a) > MAX_DELAY_MS
             => Delay(a) = MAX_DELAY_MS)
  /\ \A p \in Procs :
       LET c == call[p] IN
       /\ IsPrefix(c.slept, <<1000, 2000>>)
       /\ \A i \in 1..Len(c.slept) :
            /\ c.slept[i] = Min(INITIAL_DELAY_MS * Pow(BACKOFF_FACTOR, i - 1), MAX_DELAY_MS)
            /\ c.slept[i] <= MAX_DELAY_MS
            /\ i > 1 => c.slept[i - 1] <= c.slept[i]
       /\ c.pc = "sleep" => Len(c.slept) = c.calls /\ Len(c.failures) = c.calls
       /\ c.pc = "request" => Len(c.slept) = c.calls - 1 /\ Len(c.failures) = c.calls - 1
       /\ (c.pc = "done" /\ ~c.hit) => Len(c.slept) = c.calls - 1
       /\ (c.pc = "done" /\ ~c.ok) =>
            /\ c.calls = MAX_RETRIES /\ Len(c.failures) = MAX_RETRIES
            /\ Len(c.slept) = MAX_RETRIES - 1

\* Every attempt failed: two sleeps, none after the third failure.
C15_Witness ==
  \E p \in Procs :
    /\ call[p].pc = "done" /\ ~call[p].ok
    /\ call[p].slept = <<1000, 2000>> /\ Len(call[p].failures) = 3

RateLimitMessage == "Rate limit exceeded. Please wait before making more requests."

Last(s) == s[Len(s)]

\* C16: a GET answered with HTTP 429 fails with the rate-limit message and
\* not with the generic request failure; it is retried and slept after like
\* any other failure; and the error thrown when the attempts are exhausted
\* on a 429 still carries the rate-limit message.
C16_RateLimitClassification ==
  \A p \in Procs :
    LET c == call[p] IN
    (c.failures # << >> /\ Last(c.failures) = "429") =>
      /\ c.lastError = <<RateLimitMessage>>
      /\ ~Contains(c.lastError, "Request failed with status code ")
      /\ c.pc = "sleep" =>
           /\ Len(c.failures) < MAX_RETRIES
           /\ c.delay = Min(INITIAL_DELAY_MS * Pow(BACKOFF_FACTOR, c.attempt), MAX_DELAY_MS)
      /\ (c.pc = "done" /\ ~c.ok) =>
           /\ Len(c.failures) = MAX_RETRIES
           /\ Suffix(c.error, 1) = <<RateLimitMessage>>
           /\ Contains(c.error, " Failed after ")

\* Every attempt was answered with 429.
C16_Witness ==
  \E p \in Procs :
    /\ call[p].pc = "done" /\ ~call[p].ok
    /\ call[p].failures = <<"429", "429", "429">>

\* ---------------------------------------------------------------------------
\* The error result of the tool handler, under ToolSpec.

\* C17: every failure that reaches the tool boundary (a validation error, an
\* unknown tool, an exception of the case, a client call whose attempts are
\* exhausted and that the case does not swallow) is returned error-flagged
\* with a body that names the tool called, carries the error's message and a
\* timestamp, and holds at most the first 3 lines of the stack trace: a
\* longer trace is never included whole.
C17_TerminalErrorPayload ==
  \A p \in Procs :
    LET t == tool[p] IN
    t.pc = "done" =>
      /\ (\/ t.thrown # << >>
          \/ t.name \notin ToolNames
          \/ (call[p].pc = "done" /\ ~call[p].ok /\ t.name # "get_related_works"))
           => t.isError
      /\ t.isError =>
           /\ t.details # << >>
           /\ t.details[1].tool = t.name
           /\ t.details[1].error = t.error /\ t.error # << >>
           /\ t.details[1].timestamp = now
           /\ Len(t.details[1].stack) <= 3
           /\ \A i \in 1..Len(t.details[1].stack) : t.details[1].stack[i] = t.thrown[i]
           /\ Len(t.thrown) > 3 => t.details[1].stack # t.thrown
      /\ ~t.isError => t.details = << >>

\* A client call's terminal failure reached the boundary with a stack of more
\* than three lines.
C17_Witness ==
  \E p \in Procs :
    /\ tool[p].pc = "done" /\ tool[p].isError /\ ~tool[p].validation
    /\ call[p].pc = "done" /\ ~call[p].ok
    /\ Len(tool[p].thrown) = 5 /\ Len(tool[p].details[1].stack) = 3

\* The ids of the entries of a sequence of lookups or summaries.
IdsOf(entries) == [i \in 1..Len(entries) |-> entries[i].id]

\* Math.min(per_page or the default page size, number of related ids)
C18_Limit(t) ==
  Min(IF Positive(t.params.per_page) THEN t.params.per_page.n ELSE DEFAULT_PAGE_SIZE,
      Len(RelatedIds(t.work)))

\* C18: get_related_works looks up at most min(per_page or the default page
\* size, number of related ids) related ids, in list order; a lookup that
\* fails for good is skipped and the remaining ids are still looked up; the
\* result holds the summaries of exactly the lookups that succeeded, in list
\* order, and is not error-flagged; only a failure of the focal work lookup
\* fails the invocation.
C18_MissingRelatedSkipped ==
  \A p \in Procs :
    LET t == tool[p] IN
    (t.pc # "idle" /\ t.name = "get_related_works") =>
      /\ Len(t.lookups) <= C18_Limit(t)
      /\ \A i \in 1..Len(t.lookups) : t.lookups[i].id = RelatedIds(t.work)[i]
      /\ IdsOf(t.related) = IdsOf(SelectSeq(t.lookups, LAMBDA l : l.ok))
      /\ (t.pc = "done" /\ t.work # JUndefined) =>
           /\ ~t.isError
           /\ Len(t.lookups) = C18_Limit(t)
      /\ (t.pc = "done" /\ t.isError) => t.work = JUndefined /\ t.lookups = << >>
      /\ (t.pc = "done" /\ t.step = 1 /\ ~call[p].ok) => t.isError

\* The first related work could not be fetched, the second could: the result
\* holds the second's summary only.
C18_Witness ==
  \E p \in Procs :
    /\ tool[p].pc = "done" /\ tool[p].name = "get_related_works" /\ ~tool[p].isError
    /\ Len(tool[p].lookups) = 2
    /\ ~tool[p].lookups[1].ok /\ tool[p].lookups[2].ok
    /\ IdsOf(tool[p].related) = <<Text("W3")>>

MaxCitations == 101

\* Whether the token sequence part occurs in the token sequence s.
Occurs(part, s) ==
  \E i \in 1..(Len(s) - Len(part) + 1) : SubSeq(s, i, i + Len(part) - 1) = part

\* The numbers k for which the filter sent holds the entry cited_by_count:>k.
C19_Floors(sent) ==
  {k \in 0..MaxCitations :
     sent # << >> /\ Occurs(<<"cited_by_count", ":", ">", ToString(k)>>, sent[1])}

\* C19: the request of get_top_cited_works sorts by cited_by_count descending
\* and its filter admits exactly the works with at least 50 citations when
\* min_citations is absent, exactly those with at least m citations when
\* min_citations is m > 0, and has no citation entry when min_citations is 0.
C19_InfluentialWorksFloor ==
  \A p \in Procs :
    (InFlight(p) /\ tool[p].name = "get_top_cited_works") =>
      LET params == HttpOf(client, call[p].req).params
          sent == ParamOf(params, "filter")
          m == tool[p].params.min_citations
          floor == IF m = JUndefined THEN 50 ELSE m.n
      IN /\ ParamOf(params, "sort") = <<<<"cited_by_count", ":", "desc">>>>
         /\ floor > 0 =>
              /\ Cardinality(C19_Floors(sent)) = 1
              /\ \A n \in 0..MaxCitations :
                   (\E k \in C19_Floors(sent) : n > k) <=> n >= floor
         /\ floor = 0 => (sent = << >> \/ ~Contains(sent[1], "cited_by_count"))

\* Requests in flight with the default floor, with a floor given and with the
\* floor switched off.
C19_Witness ==
  \E p \in Procs :
    /\ InFlight(p) /\ tool[p].name = "get_top_cited_works"
    /\ tool[p].params.min_citations = JUndefined
    /\ C19_Floors(ParamOf(HttpOf(client, call[p].req).params, "filter")) = {49}

C19_WitnessGiven ==
  \E p \in Procs :
    /\ InFlight(p) /\ tool[p].name = "get_top_cited_works"
    /\ tool[p].params.min_citations = JNum(100)
    /\ C19_Floors(ParamOf(HttpOf(client, call[p].req).params, "filter")) = {99}

C19_WitnessOff ==
  \E p \in Procs :
    /\ InFlight(p) /\ tool[p].name = "get_top_cited_works"
    /\ tool[p].params.min_citations = JNum(0)
    /\ C19_Floors(ParamOf(HttpOf(client, call[p].req).params, "filter")) = {}

(***************************************************************************)
(* The client under every identity configuration (IdentitySpec): an email, *)
(* an API key, both or neither, from the constructor's config or the       *)
(* environment.                                                            *)
(***************************************************************************)

IdentityConfigs ==
  {[enableCache |-> e, email |-> m, apiKey |-> k] :
     e \in BOOLEAN,
     m \in {JUndefined, Text("me@example.org")},
     k \in {JUndefined, Text("secret")}}

IdentityInit ==
  /\ cache = << >>
  /\ now = 0
  /\ op = NoOp
  /\ sets = NoSets
  /\ client \in IdentityConfigs
  /\ call = [p \in Procs |-> IdleCall]
  /\ tool = [p \in Procs |-> IdleTool]
  /\ fn = NoFn

IdentityNext ==
  \/ StartCall(Caller)
  \/ Succeed(Caller)
  \/ Fail(Caller)
  \/ Wake(Caller)

IdentitySpec == IdentityInit /\ [][IdentityNext]_vars

\* C20: every upstream request (getEntity, searchEntities, autocomplete,
\* findSimilarWorks) carries api_key and no mailto when an API key is
\* configured, mailto and no api_key when only an email is configured, and
\* neither when none is configured; no request carries both.
C20_IdentityExclusive ==
  \A p \in Procs :
    InFlight(p) =>
      LET params == HttpOf(client, call[p].req).params
          mailto == ParamOf(params, "mailto")
          apiKey == ParamOf(params, "api_key")
      IN /\ client.apiKey # JUndefined =>
              apiKey = <<client.apiKey.s>> /\ mailto = << >>
         /\ (client.apiKey = JUndefined /\ client.email # JUndefined) =>
              mailto = <<client.email.s>> /\ apiKey = << >>
         /\ (client.apiKey = JUndefined /\ client.email = JUndefined) =>
              mailto = << >> /\ apiKey = << >>
         /\ ~(mailto # << >> /\ apiKey # << >>)

\* A similarity search in flight for a client configured with both an email
\* and an API key.
C20_Witness ==
  \E p \in Procs :
    /\ InFlight(p) /\ call[p].req.kind = "findSimilarWorks"
    /\ client.apiKey # JUndefined /\ client.email # JUndefined
    /\ ParamOf(HttpOf(client, call[p].req).params, "api_key") = <<<<"secret">>>>

(***************************************************************************)
(* The client's use of its cache, under Spec.                              *)
(***************************************************************************)

\* C21: on a client constructed with enableCache = false no fetch path writes
\* the cache or is served from it: the cache holds no entry after any
\* sequence of calls, and every call issues at least one upstream request.
C21_CacheDisabled ==
  ~client.enableCache =>
    /\ CacheSize(cache) = 0
    /\ \A p \in Procs :
         call[p].pc # "idle" => ~call[p].hit /\ call[p].calls >= 1

\* With the cache disabled, a call has returned a document and the identical
\* call made right after it has gone upstream and returned too.
C21_Witness ==
  \E p \in Procs :
    /\ ~client.enableCache
    /\ SecondDone(p) /\ call[p].ok /\ call[p].calls >= 1
    /\ CacheSize(cache) = 0

\* C22: after clearCache() the cache has size 0 and every key misses, so the
\* next call for a request whose result was cached before goes upstream
\* again; before the clear, a successful fetch with the cache enabled leaves
\* the cache with at least one entry.
C22_ClearCacheEmpties ==
  LET c == call[Caller] IN
  /\ (c.pc = "done" /\ c.cleared) =>
       /\ CacheSize(cache) = 0
       /\ \A req \in ClientRequests :
            CacheGet(cache, CacheKey(client, req), now).ret = JNull
  /\ c.afterClear => ~c.hit /\ c.calls >= 1
  /\ (c.pc = "done" /\ c.ok /\ client.enableCache /\ ~c.cleared) =>
       CacheSize(cache) > 0

\* A request whose result was cached and cleared is fetched again from
\* upstream and cached again.
C22_Witness ==
  LET c == call[Caller] IN
  /\ client.enableCache /\ c.afterClear
  /\ c.pc = "done" /\ c.ok /\ c.calls >= 1 /\ ~c.cleared
  /\ CacheSize(cache) > 0

(***************************************************************************)
(* The filters the tools send, under ToolSpec.                             *)
(***************************************************************************)

\* The filter parameter of the request in flight, << >> when it has none.
SentFilter(p) ==
  LET sent == ParamOf(HttpOf(client, call[p].req).params, "filter") IN
  IF sent = << >> THEN << >> ELSE sent[1]

\* C23: a tool given a from or to year sends it under the publication_year
\* filter key, and no request of any tool carries a from_publication_date or
\* to_publication_date filter.
C23_YearFilterKey ==
  \A p \in Procs :
    (InFlight(p) /\ tool[p].pc = "await") =>
      /\ ~Contains(SentFilter(p), "from_publication_date")
      /\ ~Contains(SentFilter(p), "to_publication_date")
      /\ (\/ Truthy(tool[p].params.from_year) \/ Truthy(tool[p].params.to_year)
          \/ Truthy(tool[p].params.from_publication_year)
          \/ Truthy(tool[p].params.to_publication_year))
           => Contains(SentFilter(p), "publication_year")

(***************************************************************************)
(* The projections on partial records, under ProjectionSpec.               *)
(***************************************************************************)

C24_WitnessSummary ==
  /\ fn.name = "summarizeWork" /\ fn.params = NoWork
  /\ ~fn.out.threw /\ fn.out.authors = << >> /\ fn.out.abstract = JNull

\* A response without results.
C24_WitnessList ==
  /\ fn.name = "summarizeWorksList" /\ fn.params.results = None
  /\ ~fn.out.threw /\ fn.out.results = << >>

(***************************************************************************)
(* The message of a validation error, under ToolSpec.                      *)
(***************************************************************************)

\* The fields of the tool's schema that the bag violates.
C25_Violated(t) ==
  {i \in 1..Len(Schema(t.name)) :
     Issues(Schema(t.name)[i], t.params[Schema(t.name)[i].name]) # << >>}

\* C25: when a bag violates a schema, validateInput raises one error whose
\* message names the tool context and lists every violated field with its
\* reason, not only the first.
C25_AggregatedValidationMessage ==
  \A p \in Procs :
    LET t == tool[p] IN
    (t.pc = "done" /\ t.name \in ValidatedTools /\ C25_Violated(t) # {}) =>
      /\ t.isError /\ t.validation
      /\ SubSeq(t.error, 1, 2) = <<"Validation error for ", t.name>>
      /\ \A i \in C25_Violated(t) :
           LET issues == Issues(Schema(t.name)[i], t.params[Schema(t.name)[i].name]) IN
           \A k \in 1..Len(issues) : Occurs(issues[k], t.error)

\* find_similar_works without a query and with a count above 100: both
\* fields are listed.
C25_Witness ==
  \E p \in Procs :
    /\ tool[p].pc = "done" /\ tool[p].name = "find_similar_works" /\ tool[p].validation
    /\ Cardinality(C25_Violated(tool[p])) = 2
    /\ Occurs(<<"query", ":", " ", "Required">>, tool[p].error)
    /\ Occurs(<<"count", ":", " ", "Number too big">>, tool[p].error)

(***************************************************************************)
(* List queries that are equal as mappings (KeySpec): the caller issues    *)
(* list queries whose filters hold the same entries, inserted in either    *)
(* order.                                                                  *)
(***************************************************************************)

OaEntry == [key |-> <<"is_oa">>, value |-> JBool(TRUE)]
TypeEntry == [key |-> <<"type">>, value |-> Text("article")]

\* The list queries of the caller: one filter in both insertion orders, and
\* a query with another search text.
KeyRequests ==
  { SearchEntities(Text("works"),
      [NoOptions EXCEPT !.search = Text(q), !.filter = Some(f),
                        !.page = JNum(1), !.perPage = JNum(DEFAULT_PAGE_SIZE)]) :
      q \in {"ai", "ml"}, f \in {<<OaEntry, TypeEntry>>, <<TypeEntry, OaEntry>>} }

\* The caller starts a list query once its previous call has returned or thrown.
StartListQuery(p) ==
  /\ call[p].pc \in {"idle", "done"}
  /\ \E req \in KeyRequests : Begin(p, req)
  /\ UNCHANGED <<now, op, sets, client, tool, fn>>

KeyNext ==
  \/ StartListQuery(Caller)
  \/ Succeed(Caller)
  \/ Fail(Caller)
  \/ Wake(Caller)

KeySpec == Init /\ [][KeyNext]_vars

\* Whether two list queries have the same entity type and parameter sets that
\* are equal as mappings.
SameQuery(r1, r2) ==
  /\ r1.kind = r2.kind /\ r1.entityType = r2.entityType
  /\ [r1.options EXCEPT !.filter = None] = [r2.options EXCEPT !.filter = None]
  /\ (r1.options.filter = None) = (r2.options.filter = None)
  /\ r1.options.filter # None =>
       Range(r1.options.filter[1]) = Range(r2.options.filter[1])

\* C26: two list queries with the same entity type and parameter sets equal
\* as mappings, whatever the order in which the filter keys were inserted,
\* compute the same cache key, so that with the cache enabled no query is
\* sent upstream while the result of an equal query is in the cache.
C26_CacheKeyDeterminism ==
  /\ \A r1 \in KeyRequests : \A r2 \in KeyRequests :
       SameQuery(r1, r2) => CacheKey(client, r1) = CacheKey(client, r2)
  /\ \A p \in Procs :
       (client.enableCache /\ InFlight(p)) =>
         ~\E r \in KeyRequests :
            /\ SameQuery(r, call[p].req)
            /\ CacheKey(client, r) \in CacheKeysOf(cache)

(***************************************************************************)
(* SimpleCache with any string keys (StringKeySpec): the empty string is a *)
(* key like any other.                                                     *)
(***************************************************************************)

StringKeys == {<< >>, <<"a">>, <<"b">>, <<"c">>}

StringKeyNext ==
  \/ \E key \in StringKeys : Get(key)
  \/ \E key \in StringKeys : Set(key, JObj("getEntity"))
  \/ Clear
  \/ CacheTick

StringKeySpec == CacheInit /\ [][StringKeyNext]_vars

\* C27: after any sequence of get, set and clear on a SimpleCache with
\* maxSize >= 1, with any string keys (the empty string included), the number
\* of entries never exceeds maxSize.
C27_CacheSizeBound == CacheSize(cache) <= MAX_SIZE

(***************************************************************************)
(* Concurrent invocations (ConcurrentSpec): the calls of two invocations   *)
(* interleave at their awaits.  Here sets holds the fetch log, the cache   *)
(* key and the document of every GET that was answered, and op counts the  *)
(* calls started.                                                          *)
(***************************************************************************)

MaxCalls == 3

\* The calls of the invocations: three fetch paths, three cache keys.
ConcurrentRequests ==
  { GetEntity(Text("works"), Text("W1")),
    Autocomplete(Text("authors"), Text("hin")),
    FindSimilarWorks([NoOptions EXCEPT !.query = Text("drug discovery"),
                                       !.count = JNum(10)]) }

ConcurrentInit ==
  /\ cache = << >>
  /\ now = 0
  /\ op = [name |-> "calls", n |-> 0]
  /\ sets = {}
  /\ client = KeyConfig
  /\ call = [p \in Procs |-> IdleCall]
  /\ tool = [p \in Procs |-> IdleTool]
  /\ fn = NoFn

\* Invocation p starts a call while the other invocation may be at an await
\* of its own.
StartConcurrent(p) ==
  /\ call[p].pc \in {"idle", "done"}
  /\ op.n < MaxCalls
  /\ op' = [op EXCEPT !.n = @ + 1]
  /\ \E req \in ConcurrentRequests : Begin(p, req)
  /\ UNCHANGED <<now, sets, client, tool, fn>>

\* The GET of invocation p is answered with a document.
Answer(p) ==
  /\ call[p].pc = "request"
  /\ \E payload \in Payloads(call[p].req) :
       /\ Returned(p, payload)
       /\ sets' = sets \cup {[key |-> CacheKey(client, call[p].req), data |-> payload]}
  /\ UNCHANGED <<now, op, client, tool, fn>>

ConcurrentNext ==
  \/ \E p \in Procs : StartConcurrent(p)
  \/ \E p \in Procs : Answer(p)
  \/ \E p \in Procs : Fail(p)
  \/ \E p \in Procs : Wake(p)

ConcurrentSpec == ConcurrentInit /\ [][ConcurrentNext]_vars

\* C28: however concurrent invocations interleave at their awaits, the cache
\* never holds more than MAX_SIZE entries, holds at most one entry per key,
\* and a hit for a key returns a document that some answered GET for that
\* same key returned.
C28_CacheSafeUnderInterleaving ==
  /\ CacheSize(cache) <= MAX_SIZE
  /\ \A i \in 1..Len(cache) : \A j \in 1..Len(cache) :
       i # j => cache[i].key # cache[j].key
  /\ \A i \in 1..Len(cache) : [key |-> cache[i].key, data |-> cache[i].data] \in sets
  /\ \A p \in Procs :
       (call[p].pc = "done" /\ call[p].hit) =>
         [key |-> CacheKey(client, call[p].req), data |-> call[p].result] \in sets

\* Both invocations missed on the same key and fetched it; the second answer
\* replaced the first in the cache with another document.
C28_Witness ==
  /\ call[1].pc = "done" /\ call[2].pc = "done"
  /\ call[1].req = call[2].req /\ ~call[1].hit /\ ~call[2].hit
  /\ call[1].ok /\ call[2].ok /\ call[1].result # call[2].result
  /\ CacheSize(cache) = 1

\* The two invocations have stored one key more than the cache holds.
C28_WitnessFull ==
  /\ CacheSize(cache) = MAX_SIZE /\ Cardinality({e.key : e \in sets}) = MAX_SIZE + 1
  /\ call[1].pc = "done" /\ call[2].pc = "done"

\* An invocation is served from the cache with the document another
\* invocation fetched.
C28_WitnessHit ==
  /\ call[1].pc = "done" /\ call[1].hit
  /\ call[2].pc = "done" /\ ~call[2].hit /\ call[2].req = call[1].req
  /\ call[1].result = call[2].result

(***************************************************************************)
(* Progress of a call (FairSpec): the GETs of the caller are answered or   *)
(* fail (the HTTP client has a timeout) and the timers of its sleeps fire; *)
(* nothing is assumed about the other invocation.                          *)
(***************************************************************************)

FairSpec ==
  /\ ConcurrentInit
  /\ [][ConcurrentNext]_vars
  /\ WF_vars(Fail(Caller) \/ Answer(Caller))
  /\ WF_vars(Wake(Caller))

\* C29: provided every upstream call of an invocation returns or fails, each
\* of its calls completes, with a document or with a terminal error, after
\* at most MAX_RETRIES attempts and MAX_RETRIES - 1 sleeps, whatever the
\* other invocation does: its sleeps, however long, do not hold the call up.
C29_FetchTermination ==
  /\ [](\A p \in Procs :
          /\ call[p].calls <= MAX_RETRIES
          /\ Len(call[p].slept) <= MAX_RETRIES - 1
          /\ call[p].pc = "done" =>
               IF call[p].ok THEN call[p].result # JUndefined
               ELSE call[p].error # << >> /\ call[p].calls = MAX_RETRIES)
  /\ (call[Caller].pc \in {"request", "sleep"}) ~> (call[Caller].pc = "done")

\* The caller's call has ended in a terminal error after three attempts while
\* the other invocation is still in its first sleep.
C29_Witness ==
  /\ call[Caller].pc = "done" /\ ~call[Caller].ok /\ call[Caller].calls = MAX_RETRIES
  /\ Len(call[Caller].slept) = MAX_RETRIES - 1
  /\ call[2].pc = "sleep" /\ call[2].attempt = 0

(***************************************************************************)
(* SimpleCache: a read does not refresh an entry                           *)
(***************************************************************************)

\* The step is a get that returned a cached value.
GetHit == op'.name = "get" /\ op'.ret # JNull

\* C30: a get that hits leaves the Map as it was: the same entries, in the
\* same order, with the same timestamps. So the entry just read, when it is
\* the oldest of a full cache, is the one the next set of another key evicts,
\* and a get more than TTL_MS after the entry's insertion misses and deletes
\* it, whatever was read before.
C30_ReadsDoNotRefresh ==
  [][/\ GetHit => cache' = cache
     /\ ( /\ op.name = "get" /\ op.ret # JNull
          /\ op'.name = "set" /\ op'.key # op.key
          /\ Len(cache) >= MAX_SIZE
          /\ cache[1].key = op.key ) => op.key \notin CacheKeysOf(cache')
     /\ ( /\ op'.name = "get"
          /\ IndexOf(cache, op'.key) # 0
          /\ now - cache[IndexOf(cache, op'.key)].timestamp > TTL_MS )
          => op'.ret = JNull /\ op'.key \notin CacheKeysOf(cache')
    ]_vars

\* A get has just hit the oldest entry of a full cache, at the last moment
\* before the entry expires.
C30_Witness ==
  /\ op.name = "get" /\ op.ret # JNull
  /\ Len(cache) = MAX_SIZE
  /\ cache[1].key = op.key
  /\ now - cache[1].timestamp = TTL_MS

(***************************************************************************)
(* get_author_collaborators: the tally of co-authors                       *)
(***************************************************************************)

MaxPageWorks == 3

\* The id upstream records carry for the entity with short id short.
OpenAlexUrl(short) == JStr(<<"https", ":", "/", "/", "openalex.org", "/", short>>)

RECURSIVE PageEntries(_)
\* The authorship entries the loops over works.results and work.authorships
\* visit, in order; a work without authorships contributes none.
PageEntries(results) ==
  IF results = << >> THEN << >>
  ELSE (IF Head(results).authorships = None THEN << >>
        ELSE Head(results).authorships[1]) \o PageEntries(Tail(results))

\* authorship.author?.id
CoauthorId(authorship) ==
  IF authorship.author = None THEN JUndefined ELSE authorship.author[1].id

\* coauthorId && coauthorId !== params.author_id: the entries that are counted.
Counted(params, entries) ==
  SelectSeq(entries, LAMBDA a : Truthy(CoauthorId(a)) /\ CoauthorId(a) # params.author_id)

\* Object.values(collaboratorCounts) after the loops: one object per id, in
\* the order the ids were first met, named from the entry that created it.
CollaboratorCounts(counted) ==
  LET ids == FirstOccurrences([i \in 1..Len(counted) |-> CoauthorId(counted[i])], 1)
      first(id) == counted[CHOOSE i \in 1..Len(counted) :
                             /\ CoauthorId(counted[i]) = id
                             /\ \A j \in 1..(i - 1) : CoauthorId(counted[j]) # id]
  IN [k \in 1..Len(ids) |->
        [count |-> Cardinality({i \in 1..Len(counted) : CoauthorId(counted[i]) = ids[k]}),
         name |-> Or(first(ids[k]).author[1].display_name, Text("Unknown")),
         id |-> ids[k]]]

\* .sort((a, b) => b.count - a.count): a stable sort by descending count.
SortByCountDesc(s) ==
  LET rank(i) == Cardinality({j \in 1..Len(s) : s[j].count > s[i].count})
                 + Cardinality({j \in 1..(i - 1) : s[j].count = s[i].count}) + 1
  IN [r \in 1..Len(s) |-> s[CHOOSE i \in 1..Len(s) : rank(i) = r]]

\* The result of the get_author_collaborators case for the page works.
Collaborators(params, works) ==
  LET minCollabs == Or(params.min_collaborations, JNum(1))
      counts == CollaboratorCounts(Counted(params, PageEntries(works.results)))
  IN [author_id |-> params.author_id,
      total_works_analyzed |-> Len(works.results),
      collaborators |->
        SortByCountDesc(SelectSeq(counts, LAMBDA c : c.count >= minCollabs.n))]

\* An authorship entry of author short, as upstream sends it.
AuthorshipOf(short) ==
  [author |-> Some([id |-> OpenAlexUrl(short), display_name |-> Text(short)])]

\* The works of the pages: works of the focal author A1 with one or two
\* co-authors, with an entry that has no author, and a work without
\* authorships.
CollaboratorWorks ==
  {[authorships |-> None],
   [authorships |-> Some(<<AuthorshipOf("A1"), AuthorshipOf("A3"), AuthorshipOf("A2")>>)],
   [authorships |-> Some(<<AuthorshipOf("A1"), AuthorshipOf("A2")>>)],
   [authorships |-> Some(<<AuthorshipOf("A2"), [author |-> None], AuthorshipOf("A1")>>)]}

\* The arguments of the calls: the focal author by short id or by the id
\* upstream uses, with and without a threshold.
CollaboratorBags ==
  {[NoArgs EXCEPT !.author_id = id, !.min_collaborations = mc] :
     id \in {Text("A1"), OpenAlexUrl("A1")}, mc \in {JUndefined, JNum(0), JNum(2)}}

CollaboratorInit ==
  /\ cache = << >>
  /\ now = 0
  /\ op = NoOp
  /\ sets = NoSets
  /\ client = KeyConfig
  /\ call = [p \in Procs |-> IdleCall]
  /\ tool = [p \in Procs |-> IdleTool]
  /\ fn \in {[name |-> "input", params |-> params, works |-> [results |-> results],
              requests |-> << >>, out |-> << >>] :
               params \in CollaboratorBags,
               results \in SeqsUpTo(CollaboratorWorks, MaxPageWorks)}

\* The case runs: it asks the client for the author's works, receives the
\* page and returns the tally.
EvalCollaborators ==
  /\ fn.name = "input"
  /\ fn' = [fn EXCEPT !.name = "get_author_collaborators",
                      !.requests = <<Request("get_author_collaborators", fn.params)>>,
                      !.out = Collaborators(fn.params, fn.works)]
  /\ UNCHANGED <<cache, now, op, sets, client, call, tool>>

CollaboratorNext == EvalCollaborators

CollaboratorSpec == CollaboratorInit /\ [][CollaboratorNext]_vars

\* The entity an id denotes: the last segment of the id.
Denoted(id) == IF id.s = << >> THEN << >> ELSE <<id.s[Len(id.s)]>>

\* C31: get_author_collaborators returns each co-author of the page once,
\* with a count equal to the number of authorship entries carrying that
\* author id, every count at least min_collaborations (default 1), in
\* non-increasing count order, without the focal author, after exactly one
\* list query of page size 200.
C31_CollaboratorAnalysis ==
  fn.name = "get_author_collaborators" =>
    LET list == fn.out.collaborators
        entries == PageEntries(fn.works.results)
        min == IF fn.params.min_collaborations = JUndefined THEN 1
               ELSE fn.params.min_collaborations.n
        carrying(id) == Cardinality({i \in 1..Len(entries) : CoauthorId(entries[i]) = id})
    IN /\ \A i, j \in 1..Len(list) : i # j => list[i].id # list[j].id
       /\ \A i \in 1..Len(list) : list[i].count = carrying(list[i].id)
       /\ \A i \in 1..Len(list) : list[i].count >= min
       /\ \A i \in 1..(Len(list) - 1) : list[i].count >= list[i + 1].count
       /\ \A i \in 1..Len(list) : Denoted(list[i].id) # Denoted(fn.params.author_id)
       /\ Len(fn.requests) = 1
       /\ fn.requests[1].kind = "searchEntities"
       /\ fn.requests[1].options.perPage = JNum(200)

(***************************************************************************)
(* get_citation_network (ToolSpec)                                         *)
(***************************************************************************)

\* C32: get_citation_network issues one point lookup, for the focal work,
\* and one list query, filtered by cites:<id> with page size max_citing
\* (default 50); it never looks up a reference id; the reference ids it
\* returns are a prefix of the focal work's reference list of length at most
\* max_references (default 50).
C32_CitationNetworkCost ==
  \A p \in Procs :
    LET t == tool[p]
        req == call[p].req
        sent == HttpOf(client, req).params
        maxCiting == IF t.params.max_citing = JUndefined THEN JNum(50)
                     ELSE t.params.max_citing
        maxReferences == IF t.params.max_references = JUndefined THEN 50
                         ELSE t.params.max_references.n
    IN (t.pc # "idle" /\ t.name = "get_citation_network") =>
         /\ (t.pc = "await" /\ t.step = 1) =>
              req.kind = "getEntity" /\ req.id = t.params.id
         /\ (t.pc = "await" /\ t.step = 2) =>
              /\ req.kind = "searchEntities"
              /\ ParamOf(sent, "filter") = <<<<"cites", ":">> \o ToStr(t.params.id)>>
              /\ ParamOf(sent, "per_page") = <<ToStr(maxCiting)>>
         /\ t.step <= 2
         /\ (t.pc = "done" /\ ~t.isError) =>
              /\ t.step = 2
              /\ IsPrefix(t.references, ReferencedWorks(t.work))
              /\ Len(t.references) <= maxReferences

(***************************************************************************)
(* getFullWorkDetails: the position role of an author (ProjectionSpec)     *)
(***************************************************************************)

\* The number of entries of authors with the position role.
WithRole(authors, role) ==
  Cardinality({i \in 1..Len(authors) : authors[i].position = role})

\* C33: the full details of a work with n >= 1 authorship entries hold
\* every entry in source order; the entry at 0-based index i is 'first' if
\* i = 0, 'last' if i = n - 1 and i > 0, 'middle' otherwise; so exactly one
\* entry is 'first', and exactly one is 'last' when n >= 2.
C33_AuthorPositionRole ==
  (fn.name = "getFullWorkDetails" /\ fn.params.authorships # None
     /\ Len(fn.params.authorships[1]) >= 1) =>
    LET source == fn.params.authorships[1]
        n == Len(source)
        authors == fn.out.authors
    IN /\ Len(authors) = n
       /\ \A k \in 1..n :
            /\ authors[k].name = source[k].author
            /\ authors[k].position =
                 (IF k - 1 = 0 THEN "first"
                  ELSE IF k - 1 = n - 1 THEN "last" ELSE "middle")
       /\ WithRole(authors, "first") = 1
       /\ n >= 2 => WithRole(authors, "last") = 1
       /\ n = 1 => WithRole(authors, "last") = 0

\* The full details of a work with at least three authors, with a middle one.
C33_Witness ==
  /\ fn.name = "getFullWorkDetails" /\ fn.params.authorships # None
  /\ Len(fn.params.authorships[1]) >= 3
  /\ fn.out.authors[1].position = "first"
  /\ fn.out.authors[2].position = "middle"
  /\ fn.out.authors[Len(fn.out.authors)].position = "last"

\* The full details of a work with a single author.
C33_WitnessSingle ==
  /\ fn.name = "getFullWorkDetails" /\ fn.params.authorships # None
  /\ Len(fn.params.authorships[1]) = 1
  /\ fn.out.authors[1].position = "first"

(***************************************************************************)
(* buildFilter: the arguments passed through (FilterSpec)                  *)
(***************************************************************************)

\* The arguments buildFilter passes through and the filter keys they set.
PassThrough ==
  {<<"cited_by_count", "cited_by_count">>, <<"is_oa", "is_oa">>, <<"type", "type">>,
   <<"works_count", "works_count">>, <<"country_code", "country_code">>,
   <<"institution", "institutions.display_name">>}

\* C34: buildFilter copies each of cited_by_count, is_oa, type, works_count,
\* country_code and institution unchanged into the filter when it is present
\* and emits no entry for an absent one; no entry of the filter has a null,
\* undefined or empty value.
C34_PassThroughFilters ==
  fn.name = "buildFilter" =>
    /\ \A pair \in PassThrough :
         LET value == fn.params[pair[1]]
             i == IndexOf(fn.out, <<pair[2]>>)
         IN IF value \in Unset THEN i = 0
            ELSE i # 0 /\ fn.out[i].value = value
    /\ \A i \in 1..Len(fn.out) : fn.out[i].value \notin Unset

(***************************************************************************)
(* The call handler always answers (ToolSpec)                              *)
(***************************************************************************)

\* The result of a finished invocation is one of the two payloads: a content
\* payload, or an error-flagged payload with the details of the error caught.
OneResult(t) ==
  IF t.isError
  THEN /\ t.error # << >>
       /\ Len(t.details) = 1
       /\ t.details[1].tool = t.name /\ t.details[1].error = t.error
  ELSE t.error = << >> /\ t.details = << >> /\ t.thrown = << >>

\* C35: for every tool name, listed or not, and every argument bag, the
\* handler ends with exactly one result, a content payload or an
\* error-flagged payload: every step of the handler leads to an await or to
\* its result, an error thrown is always caught, an awaiting handler always
\* has a client call to wait for, and a result once returned stays. A name
\* the server does not have yields an error-flagged payload at once, without
\* a request upstream and without a change of the cache.
C35_DispatchTotal ==
  /\ [](\A p \in Procs :
          /\ tool[p].pc \in {"idle", "await", "done"}
          /\ tool[p].pc = "await" => call[p].pc \in {"request", "sleep", "done"}
          /\ tool[p].pc = "done" => OneResult(tool[p])
          /\ (tool[p].pc = "done" /\ tool[p].name \notin ToolNames) =>
               /\ tool[p].isError
               /\ tool[p].error = <<"Unknown tool", ":", " ", tool[p].name>>
               /\ tool[p].step = 0
               /\ call[p] = IdleCall)
  /\ [][\A p \in Procs :
          /\ tool[p].pc = "done" => tool'[p] = tool[p]
          /\ (tool[p].pc = "idle" /\ tool'[p].pc # "idle"
                /\ tool'[p].name \notin ToolNames) =>
               /\ tool'[p].pc = "done"
               /\ cache' = cache /\ call' = call]_vars

\* A call of a tool the server does not have has been answered.
C35_Witness ==
  /\ tool[Caller].pc = "done" /\ tool[Caller].name = "no_such_tool"
  /\ tool[Caller].isError

\* A call of a listed tool has been answered with a content payload after
\* its request was retried.
C35_WitnessContent ==
  /\ tool[Caller].pc = "done" /\ tool[Caller].name \in ToolNames
  /\ ~tool[Caller].isError /\ call[Caller].calls = 2

(***************************************************************************)
(* A failed fetch and the cache (Spec)                                     *)
(***************************************************************************)

\* The Maps the cache lookup of a call for key may leave at time t: the Map
\* as it was, or the Map without the expired entry of key.
AfterLookup(c, key, t) ==
  {c} \cup {RemoveAt(c, i) : i \in {j \in 1..Len(c) : c[j].key = key /\ Expired(c[j], t)}}

\* C36: with the cache enabled, a fetch that ends in a terminal error adds,
\* replaces and removes no entry, but for the lazy removal of the expired
\* entry of its own key at its start: the lookup changes nothing else, a
\* failed attempt, a sleep and the terminal error leave the cache as it is,
\* and the failure is not cached, so the identical call made next goes
\* upstream again.
C36_FailedFetchLeavesCache ==
  /\ [](\A p \in Procs :
          (client.enableCache /\ call[p].pc = "done" /\ ~call[p].ok) =>
            CacheKey(client, call[p].req) \notin CacheKeysOf(cache))
  /\ [][\A p \in Procs :
          client.enableCache =>
            /\ (call[p].pc \in {"idle", "done"} /\ call'[p].pc = "request") =>
                 cache' \in AfterLookup(cache, CacheKey(client, call'[p].req), now)
            /\ (call[p].pc \in {"request", "sleep"} /\ call'[p] # call[p]
                  /\ ~(call'[p].pc = "done" /\ call'[p].ok)) => cache' = cache
            /\ (call[p].pc = "done" /\ ~call[p].ok /\ call'[p].calls # call[p].calls
                  /\ call'[p].req = call[p].req) =>
                 call'[p].pc = "request" /\ call'[p].calls = 1]_vars

\* A fetch has ended in a terminal error while the cache holds the result of
\* an earlier call.
C36_Witness ==
  /\ client.enableCache
  /\ call[Caller].pc = "done" /\ ~call[Caller].ok
  /\ call[Caller].calls = MAX_RETRIES
  /\ Len(cache) >= 1

(***************************************************************************)
(* SimpleCache.set on a key that is present (CacheSpec)                    *)
(***************************************************************************)

\* C37: a set with a key that is already in the cache keeps every other key,
\* also when the cache is at capacity; only a set with a new key at capacity
\* removes an entry, and it removes exactly one.
C37_OverwriteDoesNotEvict ==
  [][op'.name = "set" =>
       LET before == CacheKeysOf(cache)
           after == CacheKeysOf(cache')
           removed == before \ after
       IN IF op'.key \in before THEN removed = {}
          ELSE IF Len(cache) >= MAX_SIZE THEN Cardinality(removed) = 1
          ELSE removed = {}]_vars

(***************************************************************************)
(* The cache keys of two tool calls                                        *)
(***************************************************************************)

\* The tools whose case begins with one client call of each kind.
KeyTools == {"get_entity", "get_work", "autocomplete_search", "search_works",
             "find_similar_works"}

\* The calls compared: the bags of these tools, and get_entity with an
\* entity type that is the path of another endpoint (the case passes
\* params.entity_type to getEntity as it is).
KeyCalls ==
  UNION {{[name |-> name, params |-> params] :
            params \in {b \in Bags(name) : Validated(name, b).ok}} : name \in KeyTools}
  \cup {[name |-> "get_entity",
         params |-> [NoArgs EXCEPT !.entity_type = Text("autocomplete"),
                                   !.id = JStr(<<"authors", "?", "q", "=", "hin">>)]],
        [name |-> "get_entity",
         params |-> [NoArgs EXCEPT !.entity_type = JStr(<<"works", "/", "W1">>),
                                   !.id = Text("x")]],
        [name |-> "get_entity",
         params |-> [NoArgs EXCEPT !.entity_type = Text("works"),
                                   !.id = JStr(<<"W1", "/", "x">>)]]}

CollisionInit ==
  /\ cache = << >>
  /\ now = 0
  /\ op = NoOp
  /\ sets = NoSets
  /\ client = KeyConfig
  /\ call = [p \in Procs |-> IdleCall]
  /\ tool = [p \in Procs |-> IdleTool]
  /\ fn \in {[name |-> "input", a |-> a, b |-> b, reqs |-> << >>, keys |-> << >>] :
               a \in KeyCalls, b \in KeyCalls}

\* The client call a tool call begins with.
FirstRequest(c) == Request(c.name, Validated(c.name, c.params).value)

\* The two tool calls reach the client: each fetch path computes its cache
\* key.
EvalCacheKeys ==
  /\ fn.name = "input"
  /\ LET ra == FirstRequest(fn.a)
         rb == FirstRequest(fn.b)
     IN fn' = [fn EXCEPT !.name = "keys", !.reqs = <<ra, rb>>,
                         !.keys = <<CacheKey(client, ra), CacheKey(client, rb)>>]
  /\ UNCHANGED <<cache, now, op, sets, client, call, tool>>

CollisionNext == EvalCacheKeys

CollisionSpec == CollisionInit /\ [][CollisionNext]_vars

\* C38: the cache keys of a point lookup, a list query, an autocomplete call
\* and a similarity search differ from each other for all inputs the tools
\* pass on, and two point lookups with different (entityType, id) pairs have
\* different keys.
C38_NoCrossOperationCollision ==
  fn.name = "keys" =>
    LET ra == fn.reqs[1]
        rb == fn.reqs[2]
    IN /\ ra.kind # rb.kind => fn.keys[1] # fn.keys[2]
       /\ (ra.kind = "getEntity" /\ rb.kind = "getEntity"
             /\ <<ra.entityType, ra.id>> # <<rb.entityType, rb.id>>) =>
            fn.keys[1] # fn.keys[2]

(***************************************************************************)
(* Two invocations of the same query in flight (ConcurrentSpec)            *)
(***************************************************************************)

\* C39: when two cache-enabled invocations of the same query are in flight
\* at the same time, upstream is called only once for the query and both
\* invocations return the same payload.
C39_ConcurrentIdenticalMisses ==
  \A p, q \in Procs :
    (p # q /\ client.enableCache /\ call[p].req = call[q].req
       /\ call[p].req.kind # "none") =>
      /\ (call[p].pc \in {"request", "sleep"} /\ call[q].pc \in {"request", "sleep"}) =>
           call[p].calls + call[q].calls <= 1
      /\ (call[p].pc = "done" /\ call[q].pc = "done" /\ call[p].ok /\ call[q].ok
            /\ ~call[p].hit /\ ~call[q].hit) =>
           call[p].result = call[q].result

====
